---- MODULE Spec2Model ----
(***************************************************************************)
(* tfblocks: address matching, resource selection, block generation and   *)
(* the run of main.                                                        *)
(*                                                                         *)
(* Strings are sequences of one-character strings, so that the regular     *)
(* expressions, split(".") and startswith of the source are computed       *)
(* character by character.  No modelled address or filter holds a         *)
(* newline, the one character on which "." and "$" of Python's re differ   *)
(* from "any character" and "end of string".                               *)
(***************************************************************************)
EXTENDS Integers, Sequences, FiniteSets, TLC

VARIABLES
    pc,                          \* position of the operation under check
    resource_address,            \* matcher / matches_filters argument
    resource_address_filter,     \* matcher argument
    matchResult,                 \* value returned by the matcher
    matchRule,                   \* the return statement of the matcher that was taken
    filter_resource_addresses,   \* explicit pattern list
    resource_addresses_by_file,  \* ordered map: sequence of <<filename, patterns>>
    filtersResult,               \* value returned by matches_filters
    state,                       \* the decoded state document (root module)
    files,                       \* file paths handed to filter_resources
    fileIdx,                     \* index of the next file of the extraction loop
    modules_to_process,          \* worklist of filter_resources
    grouped_resources,           \* result of filter_resources: sequence of <<key, resources>>
    warnings,                    \* warnings printed to stderr so far
    command_resources,           \* generate_blocks_for_command: the resources argument
    command,                     \* the command: "import", "remove", "move" or "list"
    destroy,                     \* --destroy
    supported_providers_only,    \* --supported-providers-only
    blocks,                      \* value returned by generate_blocks_for_command
    stdin,                       \* main: what standard input holds
    args_files,                  \* main: the patterns given with --files
    no_color,                    \* main: --no-color
    stdout,                      \* main: what was printed to standard output
    error,                       \* main: the fatal error printed to standard error
    exit_code,                   \* main: the exit status, once the run has ended
    file_content,                \* extract_addresses_from_content: the text
    declarations,                \* the pieces file_content was written from
    extracted_addresses,         \* value returned by extract_addresses_from_content
    address_segment              \* value returned by extract_address_segment

vars == <<pc, resource_address, resource_address_filter, matchResult, matchRule,
          filter_resource_addresses, resource_addresses_by_file, filtersResult,
          state, files, fileIdx, modules_to_process, grouped_resources, warnings,
          command_resources, command, destroy, supported_providers_only, blocks,
          stdin, args_files, no_color, stdout, error, exit_code,
          file_content, declarations, extracted_addresses, address_segment>>

matchVars == <<resource_address, resource_address_filter, matchResult, matchRule>>
filterArgVars == <<filter_resource_addresses, resource_addresses_by_file, filtersResult>>
walkVars == <<state, files, fileIdx, modules_to_process, grouped_resources, warnings>>
commandVars == <<command_resources, command, destroy, supported_providers_only, blocks>>
mainVars == <<stdin, args_files, no_color, stdout, error, exit_code>>
contentVars == <<file_content, declarations, extracted_addresses>>

-----------------------------------------------------------------------------
(* Bounds *)

\* deepest module nesting of a generated resource address
MaxDepth == 2
\* deepest module nesting of the addresses wildcards are cut from
MaxWildDepth == 1
\* longest pattern list: the explicit one, and the one of each file
MaxPatterns == 2
\* most files handed to filter_resources, most patterns given with --files
MaxFiles == 2
\* longest resource list handed to generate_blocks_for_command
MaxResources == 3
\* most blocks and comment lines of a text handed to extract_addresses_from_content
MaxDeclarations == 3

-----------------------------------------------------------------------------
(* Python values *)

\* None, and the empty string: both are falsy in Python
None == <<>>

Truthy(v) == v # None

Min(S) == CHOOSE x \in S : \A y \in S : x <= y

Digits == {"0", "1", "2", "3", "4", "5", "6", "7", "8", "9"}

DQ == "\""

SQ == "'"

\* str.startswith
StartsWith(s, prefix) ==
    /\ Len(prefix) <= Len(s)
    /\ SubSeq(s, 1, Len(prefix)) = prefix

\* "c in s"
Contains(s, c) == \E i \in 1..Len(s) : s[i] = c

\* str.split(sep) for a one-character separator
RECURSIVE Split(_, _)
Split(s, sep) ==
    IF ~Contains(s, sep)
    THEN <<s>>
    ELSE LET i == Min({k \in 1..Len(s) : s[k] = sep})
         IN  <<SubSeq(s, 1, i - 1)>> \o Split(SubSeq(s, i + 1, Len(s)), sep)

\* sep.join(parts)
RECURSIVE Join(_, _)
Join(parts, sep) ==
    IF Len(parts) = 0 THEN <<>>
    ELSE IF Len(parts) = 1 THEN parts[1]
    ELSE parts[1] \o sep \o Join(Tail(parts), sep)

-----------------------------------------------------------------------------
(* Address matching: src/tfblocks/main.py *)

Module == <<"m", "o", "d", "u", "l", "e">>

ModuleDot == Module \o <<".">>

\* The alternation (\[\d+\]|\[".+?"\]|\['.+?'\]) matches s from position i on,
\* for some end of the match.
InstanceKeyAt(s, i) ==
    /\ i <= Len(s)
    /\ s[i] = "["
    /\ \/ \E j \in (i + 2)..Len(s) :
            /\ s[j] = "]"
            /\ \A k \in (i + 1)..(j - 1) : s[k] \in Digits
       \/ /\ i + 1 <= Len(s)
          /\ s[i + 1] = DQ
          /\ \E j \in (i + 3)..(Len(s) - 1) : s[j] = DQ /\ s[j + 1] = "]"
       \/ /\ i + 1 <= Len(s)
          /\ s[i + 1] = SQ
          /\ \E j \in (i + 3)..(Len(s) - 1) : s[j] = SQ /\ s[j + 1] = "]"

\* re.match(base_address_pattern, resource_address).group(1): the lazy (.+?)
\* takes the shortest non-empty prefix that an instance key follows; None when
\* the pattern does not match.
base_address_match(s) ==
    LET I == {i \in 1..(Len(s) - 1) : InstanceKeyAt(s, i + 1)}
    IN  IF I = {} THEN None ELSE SubSeq(s, 1, Min(I))

\* re.match("^" + re.escape(p).replace("\\*", ".*") + "$", a), from position i
\* of the pattern p and position j of the address a.
RECURSIVE WildcardFrom(_, _, _, _)
WildcardFrom(p, a, i, j) ==
    IF i > Len(p) THEN j > Len(a)
    ELSE IF p[i] = "*"
         THEN \E k \in j..(Len(a) + 1) : WildcardFrom(p, a, i + 1, k)
         ELSE /\ j <= Len(a)
              /\ a[j] = p[i]
              /\ WildcardFrom(p, a, i + 1, j + 1)

\* mutant: "*" compiled to "[^.]*", a wildcard that stops at a dot
RECURSIVE WildcardNoDotFrom(_, _, _, _)
WildcardNoDotFrom(p, a, i, j) ==
    IF i > Len(p) THEN j > Len(a)
    ELSE IF p[i] = "*"
         THEN \E k \in j..(Len(a) + 1) :
                /\ \A m \in j..(k - 1) : a[m] # "."
                /\ WildcardNoDotFrom(p, a, i + 1, k)
         ELSE /\ j <= Len(a)
              /\ a[j] = p[i]
              /\ WildcardNoDotFrom(p, a, i + 1, j + 1)

wildcard_match_no_dot(a, p) == WildcardNoDotFrom(p, a, 1, 1)

wildcard_match(a, p) == WildcardFrom(p, a, 1, 1)

\* mutant: the first two segments instead of the last two
extract_address_segment_first_two(address) ==
    LET parts == Split(address, ".")
    IN  IF Len(parts) >= 2 /\ ~StartsWith(parts[1], Module)
        THEN Join(<<parts[1], parts[2]>>, <<".">>)
        ELSE None

\* mutant: the second-to-last segment is not tested for the module keyword
extract_address_segment_any(address) ==
    LET parts == Split(address, ".")
        n == Len(parts)
    IN  IF n >= 2 THEN Join(<<parts[n - 1], parts[n]>>, <<".">>) ELSE None

extract_address_segment(address) ==
    LET parts == Split(address, ".")
        n == Len(parts)
    IN  IF n >= 2 /\ ~StartsWith(parts[n - 1], Module)
        THEN Join(<<parts[n - 1], parts[n]>>, <<".">>)
        ELSE IF n = 2 /\ ~StartsWith(parts[1], Module)
        THEN Join(<<parts[1], parts[2]>>, <<".">>)
        ELSE None

\* lines 94-107: the two tests made on the prefix before the first instance key
base_address_rule(a, f) ==
    LET base_address == base_address_match(a)
    IN  /\ base_address # None
        /\ \/ base_address = f
           \/ /\ StartsWith(f, ModuleDot)
              /\ StartsWith(base_address, f \o <<".">>)

\* mutant: the address is not required to go on with "." after the filter
module_prefix_rule_no_dot(a, f) ==
    /\ StartsWith(f, ModuleDot)
    /\ StartsWith(a, f)

\* lines 109-113
module_prefix_rule(a, f) ==
    /\ StartsWith(f, ModuleDot)
    /\ StartsWith(a, f \o <<".">>)

\* s up to its first "[" (a segment pair without the key of its name)
StripKeys(s) ==
    IF ~Contains(s, "[") THEN s
    ELSE SubSeq(s, 1, Min({k \in 1..Len(s) : s[k] = "["}) - 1)

\* mutant: only the resource names are compared, not the types
type_name_rule_name_only(a, f) ==
    LET res_parts == Split(a, ".")
        filter_parts == Split(f, ".")
    IN  /\ Truthy(extract_address_segment(a))
        /\ Truthy(extract_address_segment(f))
        /\ res_parts[Len(res_parts)] = filter_parts[Len(filter_parts)]

\* mutant: the (type, name) pairs are compared without their instance keys
type_name_rule_keys_removed(a, f) ==
    LET res_type_name == extract_address_segment(a)
        filter_type_name == extract_address_segment(f)
    IN  /\ Truthy(res_type_name)
        /\ Truthy(filter_type_name)
        /\ StripKeys(res_type_name) = StripKeys(filter_type_name)

\* lines 115-120
type_name_rule(a, f) ==
    LET res_type_name == extract_address_segment(a)
        filter_type_name == extract_address_segment(f)
    IN  /\ Truthy(res_type_name)
        /\ Truthy(filter_type_name)
        /\ res_type_name = filter_type_name

\* mutant: a filter with "*" is decided by its regular expression alone
matched_by_wildcard_alone(a, f) ==
    IF Contains(f, "*") THEN (IF wildcard_match(a, f) THEN "wildcard" ELSE "none")
    ELSE IF a = f THEN "exact"
    ELSE IF base_address_rule(a, f) THEN "base_address"
    ELSE IF module_prefix_rule(a, f) THEN "module_prefix"
    ELSE IF type_name_rule(a, f) THEN "type_name"
    ELSE "none"

\* the return statement matches_resource_address_filter leaves by
matched_by(a, f) ==
    IF Contains(f, "*") /\ wildcard_match(a, f) THEN "wildcard"
    ELSE IF a = f THEN "exact"
    ELSE IF base_address_rule(a, f) THEN "base_address"
    ELSE IF module_prefix_rule(a, f) THEN "module_prefix"
    ELSE IF type_name_rule(a, f) THEN "type_name"
    ELSE "none"

matches_resource_address_filter(a, f) == matched_by(a, f) # "none"

-----------------------------------------------------------------------------
(* Inputs: resource addresses and filters *)

KeyInt == <<"[", "0", "]">>

KeyDq == <<"[", DQ, "k", DQ, "]">>

KeySq == <<"[", SQ, "k", SQ, "]">>

\* for_each over a map or set that has the empty string as a key
KeyEmpty == <<"[", DQ, DQ, "]">>

InstanceKeys == {KeyInt, KeyDq, KeySq, KeyEmpty}

KeyOptions == {<<>>} \cup InstanceKeys

ModuleC == ModuleDot \o <<"c">>

ModuleCd == ModuleDot \o <<"c", "d">>

TypeName == <<"t", ".", "n">>

\* module segments a path may have at nesting level d
ModuleSegments(d) == IF d = 1 THEN {ModuleC, ModuleCd} ELSE {ModuleC}

\* the module paths of exactly d segments, each followed by "."
RECURSIVE ModulePaths(_)
ModulePaths(d) ==
    IF d = 0 THEN {<<>>}
    ELSE {p \o m \o k \o <<".">> :
            p \in ModulePaths(d - 1), m \in ModuleSegments(d), k \in KeyOptions}

AddressesOfDepth(maxDepth) ==
    {p \o TypeName \o k :
        p \in UNION {ModulePaths(d) : d \in 0..maxDepth}, k \in KeyOptions}

Addresses == AddressesOfDepth(MaxDepth)

\* s with every bracketed instance key of the address grammar removed
RECURSIVE KeysRemoved(_)
KeysRemoved(s) ==
    IF ~Contains(s, "[") THEN s
    ELSE LET i == Min({k \in 1..Len(s) : s[k] = "["})
             j == Min({k \in i..Len(s) : s[k] = "]"})
         IN  SubSeq(s, 1, i - 1) \o KeysRemoved(SubSeq(s, j + 1, Len(s)))

HasInstanceKey(s) == Contains(s, "[")

HasWildcard(s) == Contains(s, "*")

\* the proper prefixes of s that end right before a "." and name a module path
ModulePrefixes(s) ==
    LET parts == Split(s, ".")
    IN  {Join(SubSeq(parts, 1, 2 * k), <<".">>) : k \in 1..((Len(parts) - 2) \div 2)}

FixedFilters ==
    { TypeName, <<"t", ".", "o">>, <<"u", ".", "n">>,
      ModuleC, ModuleCd, ModuleC \o <<".">> \o ModuleC, ModuleCd \o <<".">> \o ModuleC,
      ModuleC \o <<".">> \o TypeName, ModuleCd \o <<".">> \o TypeName,
      ModuleC \o <<".">> \o <<"t", ".", "o">>,
      ModuleC \o <<".">> \o ModuleC \o <<".">> \o TypeName,
      TypeName \o KeyInt, ModuleC \o KeyInt, ModuleC \o KeyInt \o <<".">> \o TypeName,
      ModuleDot \o <<"*", ".">> \o TypeName, <<"*", ".">> \o TypeName, <<"t", ".", "*">> }

FiltersFor(a) ==
    FixedFilters \cup {a, KeysRemoved(a)} \cup ModulePrefixes(KeysRemoved(a))

-----------------------------------------------------------------------------
(* The matcher applied to one address and one filter *)

NoWalk ==
    /\ state = <<>>
    /\ files = <<>>
    /\ fileIdx = 0
    /\ modules_to_process = <<>>
    /\ grouped_resources = <<>>
    /\ warnings = <<>>

NoFilterArgs ==
    /\ filter_resource_addresses = <<>>
    /\ resource_addresses_by_file = <<>>
    /\ filtersResult = <<>>

NoCommand ==
    /\ command_resources = <<>>
    /\ command = ""
    /\ destroy = FALSE
    /\ supported_providers_only = FALSE
    /\ blocks = <<>>

NoMain ==
    /\ stdin = <<>>
    /\ args_files = <<>>
    /\ no_color = FALSE
    /\ stdout = <<>>
    /\ error = ""
    /\ exit_code = -1

NoContent ==
    /\ file_content = <<>>
    /\ declarations = <<>>
    /\ extracted_addresses = <<>>

InitMatch ==
    /\ pc = "match"
    /\ resource_address \in Addresses
    /\ resource_address_filter \in FiltersFor(resource_address)
    /\ matchResult = FALSE
    /\ matchRule = "none"
    /\ NoFilterArgs
    /\ NoWalk
    /\ NoCommand
    /\ NoMain
    /\ NoContent
    /\ address_segment = <<>>

Match ==
    /\ pc = "match"
    /\ matchResult' = matches_resource_address_filter(resource_address, resource_address_filter)
    /\ matchRule' = matched_by(resource_address, resource_address_filter)
    /\ pc' = "matched"
    /\ UNCHANGED <<resource_address, resource_address_filter>>
    /\ UNCHANGED filterArgVars
    /\ UNCHANGED walkVars
    /\ UNCHANGED <<commandVars, mainVars, contentVars, address_segment>>

NextMatch == Match

SpecMatch == InitMatch /\ [][NextMatch]_vars

-----------------------------------------------------------------------------
(* The matcher applied to an address and a filter cut from an address by     *)
(* replacing one contiguous substring with "*"                               *)

\* a with its characters i..j replaced by "*" (j = i - 1: "*" inserted)
Replaced(a, i, j) == SubSeq(a, 1, i - 1) \o <<"*">> \o SubSeq(a, j + 1, Len(a))

WildcardsOf(a) ==
    UNION {{Replaced(a, i, j) : j \in (i - 1)..Len(a)} : i \in 1..(Len(a) + 1)}

\* an address of another resource, whose wildcards need not match
ForeignAddress == <<"t", ".", "o">> \o KeyInt

InitWild ==
    /\ pc = "match"
    /\ resource_address \in AddressesOfDepth(MaxWildDepth)
    /\ resource_address_filter \in WildcardsOf(resource_address) \cup WildcardsOf(ForeignAddress)
    /\ matchResult = FALSE
    /\ matchRule = "none"
    /\ NoFilterArgs
    /\ NoWalk
    /\ NoCommand
    /\ NoMain
    /\ NoContent
    /\ address_segment = <<>>

SpecWild == InitWild /\ [][NextMatch]_vars

-----------------------------------------------------------------------------
(* Properties of matches_resource_address_filter *)

Parts(s) == Split(s, ".")

NoKeyNoWildcard(s) == ~HasInstanceKey(s) /\ ~HasWildcard(s)

\* p is a module path and a lies below it
ModulePathPrefix(p, a) == StartsWith(p, ModuleDot) /\ StartsWith(a, p \o <<".">>)

\* the last two dot-separated segments of s are a (type, name) pair
PairResolves(s) ==
    /\ Len(Parts(s)) >= 2
    /\ ~StartsWith(Parts(s)[Len(Parts(s)) - 1], Module)

TrailingPair(s) == SubSeq(Parts(s), Len(Parts(s)) - 1, Len(Parts(s)))

SameTrailingPair(a, p) ==
    /\ PairResolves(a)
    /\ PairResolves(p)
    /\ TrailingPair(a) = TrailingPair(p)

\* p is a bare type.name: two segments, no module, no key, no wildcard
BareTypeName(p) ==
    /\ NoKeyNoWildcard(p)
    /\ Len(Parts(p)) = 2
    /\ PairResolves(p)

\* p is module.<name>: one unindexed module segment
NamesModule(p) ==
    /\ NoKeyNoWildcard(p)
    /\ Len(Parts(p)) = 2
    /\ Parts(p)[1] = Module

\* C3 as stated: without wildcard and instance key on either side, the matcher
\* is string equality.
Cex_C3 ==
    (pc = "matched" /\ NoKeyNoWildcard(resource_address)
                    /\ NoKeyNoWildcard(resource_address_filter))
    => (matchResult <=> resource_address = resource_address_filter)

\* C3 amended: without wildcard and instance key on either side, the matcher is
\* true iff the two are equal, or the filter is a module path the address lies
\* below, or both end in the same (type, name) pair.
Thm_C3 ==
    (pc = "matched" /\ NoKeyNoWildcard(resource_address)
                    /\ NoKeyNoWildcard(resource_address_filter))
    => (matchResult <=>
          \/ resource_address = resource_address_filter
          \/ ModulePathPrefix(resource_address_filter, resource_address)
          \/ SameTrailingPair(resource_address, resource_address_filter))

Witness_C3 ==
    /\ pc = "matched"
    /\ resource_address = ModuleC \o <<".">> \o TypeName
    /\ resource_address_filter = TypeName
    /\ matchResult

\* C4: type.name followed by one instance key of any shape matches the filter
\* type.name.
Cex_C4 ==
    (/\ pc = "matched"
     /\ BareTypeName(resource_address_filter)
     /\ \E k \in InstanceKeys : resource_address = resource_address_filter \o k)
    => matchResult

\* C5: a filter module.c matches every resource below module.c, the module
\* unindexed or an indexed instance, at any depth.
Cex_C5 ==
    (/\ pc = "matched"
     /\ NamesModule(resource_address_filter)
     /\ \E k \in KeyOptions :
            StartsWith(resource_address, resource_address_filter \o k \o <<".">>))
    => matchResult

\* every instance key of a is [<int>], ["<non-empty string>"] or ['<non-empty string>']
NonEmptyKeys(a) == \A i \in 1..(Len(a) - 3) : SubSeq(a, i, i + 3) # KeyEmpty

\* C6: an address that equals the filter once every instance key is removed
\* matches it (stated for addresses whose keys are non-empty, one or several
\* segments indexed).
Cex_C6 ==
    (/\ pc = "matched"
     /\ NonEmptyKeys(resource_address)
     /\ KeysRemoved(resource_address) = resource_address_filter)
    => matchResult

\* C7: a module-path filter without keys matches every address that, with every
\* instance key removed, begins with the filter followed by "." (stated for
\* addresses whose keys are non-empty).
Cex_C7 ==
    (/\ pc = "matched"
     /\ NonEmptyKeys(resource_address)
     /\ NoKeyNoWildcard(resource_address_filter)
     /\ ModulePathPrefix(resource_address_filter, KeysRemoved(resource_address)))
    => matchResult

\* exactly one "*" in p
OneWildcard(p) == Cardinality({i \in 1..Len(p) : p[i] = "*"}) = 1

\* a begins with what p has before its "*" and ends with what p has after it,
\* the two not overlapping
LiteralAnchored(a, p) ==
    LET i == Min({k \in 1..Len(p) : p[k] = "*"})
        before == SubSeq(p, 1, i - 1)
        after == SubSeq(p, i + 1, Len(p))
    IN  /\ Len(a) >= Len(before) + Len(after)
        /\ SubSeq(a, 1, Len(before)) = before
        /\ SubSeq(a, Len(a) - Len(after) + 1, Len(a)) = after

\* p is a with one contiguous substring replaced by "*" (a holds no "*")
CutFrom(a, p) == OneWildcard(p) /\ LiteralAnchored(a, p)

\* C8: a filter cut from the address by replacing one contiguous substring with
\* "*" matches the address; and the wildcard rule accepts an address only if the
\* literal characters of the filter occur in it, anchored at both ends.
Thm_C8 ==
    pc = "matched" =>
        /\ CutFrom(resource_address, resource_address_filter) => matchResult
        /\ (matchRule = "wildcard" /\ OneWildcard(resource_address_filter))
            => LiteralAnchored(resource_address, resource_address_filter)

Witness_C8 ==
    /\ pc = "matched"
    /\ resource_address = ModuleC \o KeyInt \o <<".">> \o TypeName
    /\ resource_address_filter = ModuleDot \o <<"*", ".", "n">>
    /\ matchRule = "wildcard"

\* C9: equal trailing (type, name) pairs match whatever the module paths; a
\* bare type.name filter of another name or type does not match a resource
\* inside a module.
Thm_C9 ==
    pc = "matched" =>
        /\ SameTrailingPair(resource_address, resource_address_filter) => matchResult
        /\ (/\ BareTypeName(resource_address_filter)
            /\ StartsWith(resource_address, ModuleDot)
            /\ TrailingPair(KeysRemoved(resource_address))
                  # TrailingPair(resource_address_filter))
            => ~matchResult

Witness_C9 ==
    /\ pc = "matched"
    /\ resource_address = ModuleCd \o KeyDq \o <<".">> \o ModuleC \o <<".">> \o TypeName
    /\ resource_address_filter = ModuleC \o <<".">> \o TypeName
    /\ matchRule = "type_name"

\* C10: a bare type.name filter matches every address whose form without
\* instance keys ends with the segments type.name (stated for addresses whose
\* keys are non-empty).
Cex_C10 ==
    (/\ pc = "matched"
     /\ NonEmptyKeys(resource_address)
     /\ BareTypeName(resource_address_filter)
     /\ TrailingPair(KeysRemoved(resource_address)) = TrailingPair(resource_address_filter))
    => matchResult

-----------------------------------------------------------------------------
(* Source-text address extraction: src/tfblocks/main.py *)

\* \s of Python's re, as far as the modelled files use it
Whitespace == {" ", "\n", "\t"}

ResourceWord == <<"r", "e", "s", "o", "u", "r", "c", "e">>

ModuleWord == Module

\* the literal word w stands in s at position i
WordAt(s, w, i) ==
    /\ i + Len(w) - 1 <= Len(s)
    /\ SubSeq(s, i, i + Len(w) - 1) = w

\* \s+ (greedy) from position i: the position after the run, 0 when no
\* whitespace stands at i
RECURSIVE SkipWhitespace(_, _)
SkipWhitespace(s, i) ==
    IF i <= Len(s) /\ s[i] \in Whitespace
    THEN IF i + 1 <= Len(s) /\ s[i + 1] \in Whitespace
         THEN SkipWhitespace(s, i + 1)
         ELSE i + 1
    ELSE 0

\* "([^"]+)" from position i: <<group, position after the closing quote>>,
\* <<>> when it does not match there
QuotedAt(s, i) ==
    IF i = 0 \/ i > Len(s) \/ s[i] # DQ THEN <<>>
    ELSE LET C == {j \in (i + 1)..Len(s) : s[j] = DQ}
         IN  IF C = {} \/ Min(C) = i + 1 THEN <<>>
             ELSE <<SubSeq(s, i + 1, Min(C) - 1), Min(C) + 1>>

\* resource\s+"([^"]+)"\s+"([^"]+)" at position i: <<address, end>> or <<>>
ResourceMatchAt(s, i) ==
    IF ~WordAt(s, ResourceWord, i) THEN <<>>
    ELSE LET q1 == QuotedAt(s, SkipWhitespace(s, i + Len(ResourceWord)))
         IN  IF q1 = <<>> THEN <<>>
             ELSE LET q2 == QuotedAt(s, SkipWhitespace(s, q1[2]))
                  IN  IF q2 = <<>> THEN <<>>
                      ELSE <<q1[1] \o <<".">> \o q2[1], q2[2]>>

\* module\s+"([^"]+)" at position i: <<address, end>> or <<>>
ModuleMatchAt(s, i) ==
    IF ~WordAt(s, ModuleWord, i) THEN <<>>
    ELSE LET q == QuotedAt(s, SkipWhitespace(s, i + Len(ModuleWord)))
         IN  IF q = <<>> THEN <<>>
             ELSE <<ModuleDot \o q[1], q[2]>>

\* re.finditer: the non-overlapping matches from position i on, left to right
RECURSIVE FindResources(_, _)
FindResources(s, i) ==
    LET starts == {j \in i..Len(s) : ResourceMatchAt(s, j) # <<>>}
    IN  IF starts = {} THEN <<>>
        ELSE LET m == ResourceMatchAt(s, Min(starts))
             IN  <<m[1]>> \o FindResources(s, m[2])

RECURSIVE FindModules(_, _)
FindModules(s, i) ==
    LET starts == {j \in i..Len(s) : ModuleMatchAt(s, j) # <<>>}
    IN  IF starts = {} THEN <<>>
        ELSE LET m == ModuleMatchAt(s, Min(starts))
             IN  <<m[1]>> \o FindModules(s, m[2])

\* mutant: the module declarations are not looked for
extract_addresses_from_content_resources_only(content) ==
    FindResources(content, 1)

extract_addresses_from_content(content) ==
    FindResources(content, 1) \o FindModules(content, 1)

\* The files of the working directory: what open(file_path).read() gives.
FileSystem ==
    [ f \in {"a.tf", "b.tf", "e.tf", "x.tf"} |->
        CASE f = "a.tf" -> [readable |-> TRUE, content |-> <<"r", "e", "s", "o", "u", "r", "c", "e", " ", DQ, "t", DQ, " ", DQ, "n", DQ>>]
          [] f = "b.tf" -> [readable |-> TRUE, content |-> <<"#", " ", "b", "\n", "m", "o", "d", "u", "l", "e", " ", " ", DQ, "c", DQ, "\n">>]
          [] f = "e.tf" -> [readable |-> TRUE, content |-> <<"d", "a", "t", "a", " ", DQ, "t", DQ, " ", DQ, "n", DQ>>]
          [] f = "x.tf" -> [readable |-> FALSE, content |-> <<>>] ]

FileNames == DOMAIN FileSystem

\* <<addresses, warnings printed>>
extract_addresses_from_file(file_path) ==
    LET ok == FileSystem[file_path].readable
        addresses == IF ok THEN extract_addresses_from_content(FileSystem[file_path].content)
                     ELSE <<>>
    IN  <<addresses,
          (IF ok THEN <<>> ELSE <<"could_not_process_file">>)
             \o (IF addresses = <<>> THEN <<"no_addresses_in_file">> ELSE <<>>)>>

-----------------------------------------------------------------------------
(* Resource selection: src/tfblocks/main.py *)

\* Python's None where a filename may stand (a dict key, matching_filename);
\* no file of the model has this name
NoFile == "None"

\* mutant: only the first pattern of the list is tried
FirstMatches(address, patterns) ==
    patterns # <<>> /\ matches_resource_address_filter(address, patterns[1])

\* any(matches_resource_address_filter(address, p) for p in patterns)
AnyMatches(address, patterns) ==
    \E i \in 1..Len(patterns) : matches_resource_address_filter(address, patterns[i])

\* mutant: the last file with a matching pattern instead of the first
last_matching_filename(address, by_file) ==
    LET I == {i \in 1..Len(by_file) : AnyMatches(address, by_file[i][2])}
    IN  IF I = {} THEN NoFile ELSE by_file[CHOOSE i \in I : \A j \in I : j <= i][1]

\* next(filename for filename, patterns in by_file.items() if any(...), None)
first_matching_filename(address, by_file) ==
    LET I == {i \in 1..Len(by_file) : AnyMatches(address, by_file[i][2])}
    IN  IF I = {} THEN NoFile ELSE by_file[Min(I)][1]

\* mutant: the two filter sources joined by "or" instead of "and"
matches_filters_union(address, filter_addresses, by_file) ==
    LET matching_filename == first_matching_filename(address, by_file)
    IN  <<\/ (AnyMatches(address, filter_addresses) \/ filter_addresses = <<>>)
          \/ (matching_filename # NoFile \/ by_file = <<>>),
          matching_filename>>

\* <<match, matching_filename>>
matches_filters(address, filter_addresses, by_file) ==
    LET matches_address_filter == AnyMatches(address, filter_addresses)
        matching_filename == first_matching_filename(address, by_file)
        matches_files_filter == matching_filename # NoFile
    IN  <<(matches_address_filter \/ filter_addresses = <<>>)
            /\ (matches_files_filter \/ by_file = <<>>),
          matching_filename>>

\* dict[key].append(resource), the key inserted at the end when it is new
RECURSIVE DictAppend(_, _, _)
DictAppend(dict, key, resource) ==
    IF dict = <<>> THEN <<<<key, <<resource>>>>>>
    ELSE IF dict[1][1] = key
         THEN <<<<key, Append(dict[1][2], resource)>>>> \o Tail(dict)
         ELSE <<dict[1]>> \o DictAppend(Tail(dict), key, resource)

\* dict[key] = value, the key keeping its place when it is there already
RECURSIVE DictSet(_, _, _)
DictSet(dict, key, value) ==
    IF dict = <<>> THEN <<<<key, value>>>>
    ELSE IF dict[1][1] = key
         THEN <<<<key, value>>>> \o Tail(dict)
         ELSE <<dict[1]>> \o DictSet(Tail(dict), key, value)

\* mutant: the mode of the resource is not looked at
RECURSIVE process_resources_any_mode(_, _, _, _)
process_resources_any_mode(resources, filter_addresses, by_file, grouped) ==
    IF resources = <<>> THEN grouped
    ELSE LET resource == resources[1]
             r == matches_filters(resource.address, filter_addresses, by_file)
             key == IF by_file # <<>> THEN r[2] ELSE NoFile
         IN  process_resources_any_mode(
                Tail(resources), filter_addresses, by_file,
                IF r[1] THEN DictAppend(grouped, key, resource) ELSE grouped)

\* mutant: a resource is added to the group of every file that matches it
RECURSIVE process_resources_every_file(_, _, _, _)
process_resources_every_file(resources, filter_addresses, by_file, grouped) ==
    IF resources = <<>> THEN grouped
    ELSE LET resource == resources[1]
             r == matches_filters(resource.address, filter_addresses, by_file)
             matching == SelectSeq(by_file, LAMBDA e : AnyMatches(resource.address, e[2]))
             first == DictAppend(grouped, IF by_file # <<>> THEN r[2] ELSE NoFile, resource)
         IN  process_resources_every_file(
                Tail(resources), filter_addresses, by_file,
                IF resource.mode = "managed" /\ r[1]
                THEN IF Len(matching) > 1
                     THEN DictAppend(first, matching[2][1], resource)
                     ELSE first
                ELSE grouped)

\* lines 206-216: the resources of one module, in order, added to the groups
RECURSIVE process_resources(_, _, _, _)
process_resources(resources, filter_addresses, by_file, grouped) ==
    IF resources = <<>> THEN grouped
    ELSE LET resource == resources[1]
             r == matches_filters(resource.address, filter_addresses, by_file)
             key == IF by_file # <<>> THEN r[2] ELSE NoFile
         IN  process_resources(
                Tail(resources), filter_addresses, by_file,
                IF resource.mode = "managed" /\ r[1]
                THEN DictAppend(grouped, key, resource)
                ELSE grouped)

-----------------------------------------------------------------------------
(* matches_filters applied to one address, one pattern list and one by-file map *)

SeqsUpTo(S, n) == UNION {[1..k -> S] : k \in 0..n}

PatternPool == {TypeName, ModuleC}

PatternLists == SeqsUpTo(PatternPool, MaxPatterns)

\* matched by: t.n alone; both patterns; neither; module.c alone
FilterSubjects ==
    { TypeName,
      ModuleC \o <<".">> \o TypeName,
      ModuleCd \o <<".">> \o TypeName \o KeyInt,
      ModuleC \o KeyInt \o <<".">> \o TypeName \o KeyInt }

\* the by-file maps over a.tf and b.tf, in either insertion order
ByFileMaps ==
    {<<>>}
    \cup {<<<<f, l>>>> : f \in {"a.tf", "b.tf"}, l \in PatternLists}
    \cup UNION {{<<<<f, l>>, <<g, m>>>> :
                    g \in {"a.tf", "b.tf"} \ {f}, l \in PatternLists, m \in PatternLists} :
                 f \in {"a.tf", "b.tf"}}

NoMatch ==
    /\ resource_address_filter = <<>>
    /\ matchResult = FALSE
    /\ matchRule = "none"

InitFilters ==
    /\ pc = "filters"
    /\ resource_address \in FilterSubjects
    /\ filter_resource_addresses \in PatternLists
    /\ resource_addresses_by_file \in ByFileMaps
    /\ filtersResult = <<>>
    /\ NoMatch
    /\ NoWalk
    /\ NoCommand
    /\ NoMain
    /\ NoContent
    /\ address_segment = <<>>

ApplyFilters ==
    /\ pc = "filters"
    /\ filtersResult' = matches_filters(resource_address, filter_resource_addresses,
                                        resource_addresses_by_file)
    /\ pc' = "filtered"
    /\ UNCHANGED <<resource_address, resource_address_filter, matchResult, matchRule,
                   filter_resource_addresses, resource_addresses_by_file>>
    /\ UNCHANGED walkVars
    /\ UNCHANGED <<commandVars, mainVars, contentVars, address_segment>>

NextFilters == ApplyFilters

SpecFilters == InitFilters /\ [][NextFilters]_vars

-----------------------------------------------------------------------------
(* filter_resources on a state document, explicit patterns and files *)

\* the resource type of an address: its second-to-last segment
TypeOf(a) == LET segments == Split(KeysRemoved(a), ".") IN segments[Len(segments) - 1]

Managed(a) == [address |-> a, mode |-> "managed", type |-> TypeOf(a), values |-> <<>>]

DataSource(a) == [address |-> <<"d", "a", "t", "a", ".">> \o a, mode |-> "data"]

ModuleNode(resources, child_modules) ==
    [resources |-> resources, child_modules |-> child_modules]

RootResourceLists ==
    { <<>>,
      <<Managed(TypeName)>>,
      <<Managed(TypeName), DataSource(TypeName)>>,
      <<Managed(<<"u", ".", "n">>), Managed(TypeName)>> }

GrandChild ==
    ModuleNode(<<Managed(ModuleC \o <<".">> \o ModuleC \o <<".">> \o TypeName \o KeyInt),
                 DataSource(ModuleC \o <<".">> \o ModuleC \o <<".">> \o TypeName)>>, <<>>)

ChildC(children) == ModuleNode(<<Managed(ModuleC \o <<".">> \o TypeName)>>, children)

ChildCd == ModuleNode(<<Managed(ModuleCd \o <<".">> \o TypeName \o KeyInt)>>, <<>>)

ChildModuleLists ==
    { <<>>, <<ChildC(<<>>)>>, <<ChildC(<<GrandChild>>)>>, <<ChildC(<<>>), ChildCd>>,
      <<ChildC(<<GrandChild>>), ChildCd>> }

StateDocuments ==
    { [format_version |-> "1.0", values |-> [root_module |-> ModuleNode(r, c)]] :
        r \in RootResourceLists, c \in ChildModuleLists }

\* the lists of distinct files, of at most n files
FileLists(n) ==
    {l \in SeqsUpTo(FileNames, n) : \A i, j \in 1..Len(l) : i # j => l[i] # l[j]}

InitSelect ==
    /\ pc = "extract"
    /\ state \in StateDocuments
    /\ filter_resource_addresses \in PatternLists
    /\ files \in FileLists(MaxFiles)
    /\ fileIdx = 1
    /\ resource_addresses_by_file = <<>>
    /\ modules_to_process = <<>>
    /\ grouped_resources = <<>>
    /\ warnings = <<>>
    /\ resource_address = <<>>
    /\ filtersResult = <<>>
    /\ NoMatch
    /\ NoCommand
    /\ NoMain
    /\ NoContent
    /\ address_segment = <<>>

selectFixed ==
    <<state, files, filter_resource_addresses, resource_address, filtersResult,
      resource_address_filter, matchResult, matchRule,
      commandVars, mainVars, contentVars, address_segment>>

\* mutant: a file that yields no address gets its entry all the same
ExtractFile_keeps_empty ==
    /\ pc = "extract"
    /\ fileIdx <= Len(files)
    /\ LET extracted == extract_addresses_from_file(files[fileIdx])
       IN  /\ resource_addresses_by_file' =
                DictSet(resource_addresses_by_file, files[fileIdx], extracted[1])
           /\ warnings' = warnings \o extracted[2]
    /\ fileIdx' = fileIdx + 1
    /\ UNCHANGED <<pc, modules_to_process, grouped_resources>>
    /\ UNCHANGED selectFixed

\* lines 184-187: one turn of the loop over the files
ExtractFile ==
    /\ pc = "extract"
    /\ fileIdx <= Len(files)
    /\ LET extracted == extract_addresses_from_file(files[fileIdx])
       IN  /\ resource_addresses_by_file' =
                IF extracted[1] # <<>>
                THEN DictSet(resource_addresses_by_file, files[fileIdx], extracted[1])
                ELSE resource_addresses_by_file
           /\ warnings' = warnings \o extracted[2]
    /\ fileIdx' = fileIdx + 1
    /\ UNCHANGED <<pc, modules_to_process, grouped_resources>>
    /\ UNCHANGED selectFixed

\* lines 189-197: after the loop, the warning and the worklist set up
StartWalk ==
    /\ pc = "extract"
    /\ fileIdx > Len(files)
    /\ "values" \in DOMAIN state
    /\ warnings' = IF files # <<>> /\ resource_addresses_by_file = <<>>
                   THEN Append(warnings, "no_resources_in_files")
                   ELSE warnings
    /\ grouped_resources' = <<>>
    /\ modules_to_process' = <<state.values.root_module>>
    /\ pc' = "walk"
    /\ UNCHANGED <<fileIdx, resource_addresses_by_file>>
    /\ UNCHANGED selectFixed

\* mutant: only the first child module is added to the worklist
ProcessModule_first_child ==
    /\ pc = "walk"
    /\ modules_to_process # <<>>
    /\ LET module == modules_to_process[Len(modules_to_process)]
       IN  /\ modules_to_process' =
                SubSeq(modules_to_process, 1, Len(modules_to_process) - 1)
                    \o (IF module.child_modules = <<>> THEN <<>>
                        ELSE <<module.child_modules[1]>>)
           /\ grouped_resources' =
                process_resources(module.resources, filter_resource_addresses,
                                  resource_addresses_by_file, grouped_resources)
    /\ UNCHANGED <<pc, fileIdx, resource_addresses_by_file, warnings>>
    /\ UNCHANGED selectFixed

\* lines 199-216: one turn of the while loop
ProcessModule ==
    /\ pc = "walk"
    /\ modules_to_process # <<>>
    /\ LET module == modules_to_process[Len(modules_to_process)]
       IN  /\ modules_to_process' =
                SubSeq(modules_to_process, 1, Len(modules_to_process) - 1)
                    \o module.child_modules
           /\ grouped_resources' =
                process_resources(module.resources, filter_resource_addresses,
                                  resource_addresses_by_file, grouped_resources)
    /\ UNCHANGED <<pc, fileIdx, resource_addresses_by_file, warnings>>
    /\ UNCHANGED selectFixed

\* lines 218-224: the worklist is empty
FinishSelect ==
    /\ pc = "walk"
    /\ modules_to_process = <<>>
    /\ warnings' = IF grouped_resources = <<>>
                      /\ (filter_resource_addresses # <<>> \/ files # <<>>)
                   THEN Append(warnings, "no_resources_matching")
                   ELSE warnings
    /\ pc' = "done"
    /\ UNCHANGED <<fileIdx, resource_addresses_by_file, modules_to_process,
                   grouped_resources>>
    /\ UNCHANGED selectFixed

NextSelect ==
    \/ ExtractFile
    \/ StartWalk
    \/ ProcessModule
    \/ FinishSelect

SpecSelect == InitSelect /\ [][NextSelect]_vars

-----------------------------------------------------------------------------
(* Properties of matches_filters and filter_resources *)

\* some pattern of the list matches the address
SomePattern(a, patterns) ==
    \E i \in 1..Len(patterns) : matches_resource_address_filter(a, patterns[i])

\* some pattern of some file matches the address
SomeFilePattern(a, by_file) ==
    \E i \in 1..Len(by_file) : SomePattern(a, by_file[i][2])

\* C1: with both filter sources non-empty a resource is selected iff both
\* match it; with one non-empty, iff that one matches; with none, always.
Thm_C1 ==
    pc = "filtered" =>
        LET E == filter_resource_addresses
            F == resource_addresses_by_file
            a == resource_address
            selected == filtersResult[1]
        IN  /\ (E # <<>> /\ F # <<>>)
                => (selected <=> (SomePattern(a, E) /\ SomeFilePattern(a, F)))
            /\ (E # <<>> /\ F = <<>>) => (selected <=> SomePattern(a, E))
            /\ (E = <<>> /\ F # <<>>) => (selected <=> SomeFilePattern(a, F))
            /\ (E = <<>> /\ F = <<>>) => selected

Witness_C1 ==
    /\ pc = "filtered"
    /\ resource_address = TypeName
    /\ filter_resource_addresses = <<TypeName>>
    /\ resource_addresses_by_file = <<<<"a.tf", <<ModuleC>>>>>>
    /\ filtersResult[1] = FALSE

\* C2: files given, none yielding an address: the result is empty.
Cex_C2 ==
    (pc = "done" /\ files # <<>> /\ resource_addresses_by_file = <<>>)
    => grouped_resources = <<>>

\* the resources of a module and of every module below it
RECURSIVE ResourcesBelow(_)
ResourcesBelow(module) ==
    {module.resources[i] : i \in 1..Len(module.resources)}
    \cup UNION {ResourcesBelow(module.child_modules[i]) : i \in 1..Len(module.child_modules)}

ManagedBelow(module) == {r \in ResourcesBelow(module) : r.mode = "managed"}

\* the resources of the group at position g
GroupSet(g) == {grouped_resources[g][2][i] : i \in 1..Len(grouped_resources[g][2])}

\* C16: no group ever holds a resource whose mode is not "managed"; and with no
\* explicit pattern and no file every managed resource of the tree, root and
\* nested modules, is selected, once, in the single group of key None.
Thm_C16 ==
    pc = "done" =>
        /\ \A g \in 1..Len(grouped_resources) : \A r \in GroupSet(g) : r.mode = "managed"
        /\ (filter_resource_addresses = <<>> /\ files = <<>>)
            => LET all == ManagedBelow(state.values.root_module)
               IN  IF all = {} THEN grouped_resources = <<>>
                   ELSE /\ Len(grouped_resources) = 1
                        /\ grouped_resources[1][1] = NoFile
                        /\ GroupSet(1) = all
                        /\ Len(grouped_resources[1][2]) = Cardinality(all)

\* a tree with data sources and managed resources at three levels, unfiltered
Witness_C16 ==
    /\ pc = "done"
    /\ filter_resource_addresses = <<>>
    /\ files = <<>>
    /\ state.values.root_module =
            ModuleNode(<<Managed(TypeName), DataSource(TypeName)>>, <<ChildC(<<GrandChild>>)>>)
    /\ Len(grouped_resources[1][2]) = 3

\* the files, in the order given, with a pattern that matches the address
MatchingFiles(a) ==
    {i \in 1..Len(files) : SomePattern(a, extract_addresses_from_file(files[i])[1])}

\* C17: with a non-empty by-file map every selected resource is in the group of
\* the first file, in the order the files were given, that has a pattern
\* matching it, and in no other group; with an empty map the key is None.
Thm_C17 ==
    pc = "done" =>
        \A g \in 1..Len(grouped_resources) :
            /\ resource_addresses_by_file = <<>> => grouped_resources[g][1] = NoFile
            /\ resource_addresses_by_file # <<>> =>
                    \A r \in GroupSet(g) :
                        /\ MatchingFiles(r.address) # {}
                        /\ grouped_resources[g][1] = files[Min(MatchingFiles(r.address))]
                        /\ \A h \in 1..Len(grouped_resources) : r \in GroupSet(h) => h = g

\* module.c.t.n is matched by module.c of b.tf and by t.n of a.tf: with b.tf
\* given first it is in the group of b.tf
Witness_C17 ==
    /\ pc = "done"
    /\ files = <<"b.tf", "a.tf">>
    /\ \E g \in 1..Len(grouped_resources) :
            /\ grouped_resources[g][1] = "b.tf"
            /\ \E r \in GroupSet(g) : MatchingFiles(r.address) = {1, 2}

-----------------------------------------------------------------------------
(* Block generation: generate_import_block, generate_removed_block,          *)
(* generate_moved_block, generate_blocks_for_command.                        *)
(*                                                                           *)
(* A block is a record of the values its f-string interpolates; the fixed    *)
(* text of the template is the record's "block" field and field names.       *)

\* str.replace(old, "")
RECURSIVE Removed(_, _)
Removed(s, old) ==
    IF s = <<>> THEN <<>>
    ELSE IF StartsWith(s, old)
         THEN Removed(SubSeq(s, Len(old) + 1, Len(s)), old)
         ELSE <<s[1]>> \o Removed(Tail(s), old)

\* str.removeprefix
RemovePrefix(s, prefix) ==
    IF StartsWith(s, prefix) THEN SubSeq(s, Len(prefix) + 1, Len(s)) ELSE s

\* "key in dict", for a dict kept as a sequence of <<key, value>>
DictHas(dict, key) == \E i \in 1..Len(dict) : dict[i][1] = key

\* dict[key], for a key of the dict
DictGet(dict, key) == dict[Min({i \in 1..Len(dict) : dict[i][1] = key})][2]

\* the end of the leftmost-alternative, lazy match of the instance-key
\* alternation that starts at i
InstanceKeyEnd(s, i) ==
    LET digitEnds == {j \in (i + 2)..Len(s) :
                        /\ s[j] = "]"
                        /\ \A k \in (i + 1)..(j - 1) : s[k] \in Digits}
        quoteEnds(q) == {j \in (i + 3)..(Len(s) - 1) : s[j] = q /\ s[j + 1] = "]"}
    IN  IF digitEnds # {} THEN Min(digitEnds)
        ELSE IF s[i + 1] = DQ /\ quoteEnds(DQ) # {} THEN Min(quoteEnds(DQ)) + 1
        ELSE Min(quoteEnds(SQ)) + 1

\* re.sub(r'(\[\d+\]|\[".+?"\]|\['.+?'\])', "", s), scanning from position i
RECURSIVE StripInstanceKeysFrom(_, _)
StripInstanceKeysFrom(s, i) ==
    IF i > Len(s) THEN <<>>
    ELSE IF InstanceKeyAt(s, i)
         THEN StripInstanceKeysFrom(s, InstanceKeyEnd(s, i) + 1)
         ELSE <<s[i]>> \o StripInstanceKeysFrom(s, i + 1)

base_address(address) == StripInstanceKeysFrom(address, 1)

\* aws_resources.py: what reading instance.import_id does
Returned(import_id) == [outcome |-> "str", import_id |-> import_id]

ReturnedNone == [outcome |-> "None"]

Raised == [outcome |-> "raised"]

AwsS3Bucket(attributes) ==
    IF DictHas(attributes, "bucket")
    THEN Returned(DictGet(attributes, "bucket"))
    ELSE ReturnedNone

AwsDynamodbTableReplica(attributes) ==
    IF ~DictHas(attributes, "global_table_arn") THEN ReturnedNone
    ELSE LET arn == Split(DictGet(attributes, "global_table_arn"), ":")
             path == Split(arn[Len(arn)], "/")
             table_name == path[Len(path)]
         IN  IF Len(arn) < 4 THEN Raised
             ELSE Returned(table_name \o <<":">> \o arn[4])

\* get_aws_resource_import_id_generators(): the classes of the model
schema_classes ==
    << <<<<"a", "w", "s", "_", "s", "3", "_", "b", "u", "c", "k", "e", "t">>, "AwsS3Bucket">>,
       <<<<"a", "w", "s", "_", "d", "y", "n", "a", "m", "o", "d", "b", "_", "t", "a", "b", "l", "e", "_", "r", "e", "p", "l", "i", "c", "a">>, "AwsDynamodbTableReplica">> >>

\* lines 247-249: matching_class(address, values).import_id; resource["values"]
\* of a resource without values raises inside the try
instance_import_id(matching_class, resource) ==
    IF "values" \notin DOMAIN resource THEN Raised
    ELSE IF matching_class = "AwsS3Bucket" THEN AwsS3Bucket(resource.values)
    ELSE AwsDynamodbTableReplica(resource.values)

\* the value of "return None"
NoBlock == [block |-> "None"]

Hashicorp == <<"h", "a", "s", "h", "i", "c", "o", "r", "p">>

Aws == <<"a", "w", "s">>

RegistryHost == <<"r", "e", "g", "i", "s", "t", "r", "y", ".", "t", "e", "r", "r", "a", "f", "o", "r", "m", ".", "i", "o", "/">>

\* import_id: "<id>", or "" # TODO, or "" # TODO: <documentation of org/provider/resource>
ImportBlock(address, id, todo, docs) ==
    [block |-> "import", to |-> address, id |-> id, todo |-> todo, docs |-> docs]

\* mutant: with providers_only, an aws resource without a registry class is dropped
generate_import_block_registry_only(resource, classes, providers_only) ==
    LET outcome == IF DictHas(classes, resource.type)
                   THEN instance_import_id(DictGet(classes, resource.type), resource)
                   ELSE ReturnedNone
    IN  IF StartsWith(resource.type, Aws \o <<"_">>)
        THEN IF providers_only /\ ~DictHas(classes, resource.type) THEN NoBlock
             ELSE IF outcome.outcome = "str"
             THEN ImportBlock(resource.address, outcome.import_id, FALSE, <<>>)
             ELSE ImportBlock(resource.address, <<>>, TRUE,
                              <<Hashicorp, Aws, Removed(resource.type, Aws \o <<"_">>)>>)
        ELSE IF ~providers_only THEN ImportBlock(resource.address, <<>>, TRUE, <<>>)
        ELSE NoBlock

\* mutant: a handler that raises leaves the resource without a block
generate_import_block_uncaught(resource, classes, providers_only) ==
    LET outcome == IF DictHas(classes, resource.type)
                   THEN instance_import_id(DictGet(classes, resource.type), resource)
                   ELSE ReturnedNone
    IN  IF StartsWith(resource.type, Aws \o <<"_">>)
        THEN IF outcome.outcome = "raised" THEN NoBlock
             ELSE IF outcome.outcome = "str"
             THEN ImportBlock(resource.address, outcome.import_id, FALSE, <<>>)
             ELSE ImportBlock(resource.address, <<>>, TRUE,
                              <<Hashicorp, Aws, Removed(resource.type, Aws \o <<"_">>)>>)
        ELSE IF ~providers_only THEN ImportBlock(resource.address, <<>>, TRUE, <<>>)
        ELSE NoBlock

generate_import_block(resource, classes, providers_only) ==
    LET provider_name == IF Contains(resource.type, "_")
                         THEN Split(resource.type, "_")[1] ELSE <<>>
        provider_field == IF "provider_name" \in DOMAIN resource
                          THEN resource.provider_name ELSE <<>>
        parts == Split(provider_field, "/")
        documentation == <<Hashicorp, Aws, Removed(resource.type, Aws \o <<"_">>)>>
        outcome == IF DictHas(classes, resource.type)
                   THEN instance_import_id(DictGet(classes, resource.type), resource)
                   ELSE ReturnedNone
    IN  IF provider_name = Aws
        THEN IF outcome.outcome = "str"
             THEN ImportBlock(resource.address, outcome.import_id, FALSE, <<>>)
             ELSE ImportBlock(resource.address, <<>>, TRUE, documentation)
        ELSE IF ~providers_only
        THEN IF StartsWith(provider_field, RegistryHost) /\ Len(parts) >= 3
             THEN ImportBlock(resource.address, <<>>, TRUE,
                              <<parts[2], parts[3],
                                RemovePrefix(resource.type, provider_name \o <<"_">>)>>)
             ELSE ImportBlock(resource.address, <<>>, TRUE, <<>>)
        ELSE NoBlock

generate_removed_block(address, destroy_flag) ==
    [block |-> "removed",
     from |-> base_address(address),
     destroy |-> IF destroy_flag THEN "true" ELSE "false"]

\* mutant: the moved block names the base address
generate_moved_block_base(address) ==
    [block |-> "moved", from |-> base_address(address), to |-> base_address(address),
     todo |-> TRUE]

generate_moved_block(address) ==
    [block |-> "moved", from |-> address, to |-> address, todo |-> TRUE]

\* lines 321-334: the loop of the remove command
RECURSIVE removed_blocks(_, _, _)
removed_blocks(resources, destroy_flag, base_addresses) ==
    IF resources = <<>> THEN <<>>
    ELSE LET base == base_address(resources[1].address)
         IN  IF base \notin base_addresses
             THEN <<generate_removed_block(resources[1].address, destroy_flag)>>
                    \o removed_blocks(Tail(resources), destroy_flag,
                                      base_addresses \cup {base})
             ELSE removed_blocks(Tail(resources), destroy_flag, base_addresses)

\* lines 335-345: the blocks of the import command that are not None
RECURSIVE import_blocks(_, _)
import_blocks(resources, providers_only) ==
    IF resources = <<>> THEN <<>>
    ELSE LET block == generate_import_block(resources[1], schema_classes, providers_only)
         IN  (IF block = NoBlock THEN <<>> ELSE <<block>>)
                \o import_blocks(Tail(resources), providers_only)

\* the value returned, or ValueError raised
generate_blocks_for_command(resources, cmd, destroy_flag, providers_only) ==
    IF cmd = "remove"
    THEN [raised |-> FALSE, blocks |-> removed_blocks(resources, destroy_flag, {})]
    ELSE IF cmd = "import"
    THEN [raised |-> FALSE, blocks |-> import_blocks(resources, providers_only)]
    ELSE IF cmd = "move"
    THEN [raised |-> FALSE,
          blocks |-> [i \in 1..Len(resources) |-> generate_moved_block(resources[i].address)]]
    ELSE [raised |-> TRUE, blocks |-> <<>>]

-----------------------------------------------------------------------------
(* generate_blocks_for_command on a list of resources *)

S3BucketType == <<"a", "w", "s", "_", "s", "3", "_", "b", "u", "c", "k", "e", "t">>

ReplicaType == <<"a", "w", "s", "_", "d", "y", "n", "a", "m", "o", "d", "b", "_", "t", "a", "b", "l", "e", "_", "r", "e", "p", "l", "i", "c", "a">>

Resource(address, type, values) ==
    [address |-> address, mode |-> "managed", type |-> type, values |-> values]

\* the handler returns the bucket name
S3Bucket == Resource(S3BucketType \o <<".", "n">>, S3BucketType, << <<"bucket", <<"b">>>> >>)

\* the handler returns None: no bucket attribute
S3BucketUnnamed == Resource(S3BucketType \o <<".", "n">> \o KeyEmpty, S3BucketType, <<>>)

\* resource["values"] raises: the resource has no values
S3BucketNoValues ==
    [address |-> S3BucketType \o <<".", "n">> \o KeyDq, mode |-> "managed", type |-> S3BucketType]

\* the handler returns table:region
Replica ==
    Resource(ReplicaType \o <<".", "n">>, ReplicaType, << <<"global_table_arn", <<"a", ":", "b", ":", "c", ":", "d", ":", "e", "/", "f">>>> >>)

\* reading import_id raises: the ARN has fewer than four fields
ReplicaBadArn ==
    Resource(ReplicaType \o <<".", "n">> \o KeyInt, ReplicaType, << <<"global_table_arn", <<"x">>>> >>)

\* an aws type the registry has no class for
AwsUnregistered == Resource(<<"a", "w", "s", "_", "x", ".", "n">>, <<"a", "w", "s", "_", "x">>, <<>>)

\* another provider, with and without a registry provider_name
GoogleResource ==
    [address |-> <<"g", "o", "o", "g", "l", "e", "_", "x", ".", "n">>, mode |-> "managed", type |-> <<"g", "o", "o", "g", "l", "e", "_", "x">>, values |-> <<>>,
     provider_name |-> RegistryHost \o <<"h", "a", "s", "h", "i", "c", "o", "r", "p", "/", "g", "o", "o", "g", "l", "e">>]

PlainResource == Resource(TypeName \o KeyEmpty, <<"t">>, <<>>)

NestedResource ==
    Resource(ModuleC \o KeyEmpty \o <<".">> \o TypeName \o KeyDq, <<"t">>, <<>>)

ResourcePool ==
    { S3Bucket, S3BucketUnnamed, S3BucketNoValues, Replica, ReplicaBadArn,
      AwsUnregistered, GoogleResource, PlainResource, NestedResource }

Commands == {"import", "remove", "move", "list"}

InitCommand ==
    /\ pc = "command"
    /\ command_resources \in SeqsUpTo(ResourcePool, MaxResources)
    /\ command \in Commands
    /\ destroy \in BOOLEAN
    /\ supported_providers_only \in BOOLEAN
    /\ blocks = <<>>
    /\ resource_address = <<>>
    /\ NoMatch
    /\ NoFilterArgs
    /\ NoWalk
    /\ NoMain
    /\ NoContent
    /\ address_segment = <<>>

GenerateBlocks ==
    /\ pc = "command"
    /\ LET result == generate_blocks_for_command(command_resources, command, destroy,
                                                 supported_providers_only)
       IN  /\ blocks' = result.blocks
           /\ pc' = IF result.raised THEN "raised" ELSE "generated"
    /\ UNCHANGED <<command_resources, command, destroy, supported_providers_only>>
    /\ UNCHANGED <<matchVars, filterArgVars, walkVars, mainVars, contentVars, address_segment>>

NextCommand == GenerateBlocks

SpecCommand == InitCommand /\ [][NextCommand]_vars

-----------------------------------------------------------------------------
(* Properties of block generation *)

\* the addresses of the resources, each with its instance keys removed
BaseAddresses(resources) ==
    {KeysRemoved(resources[i].address) : i \in 1..Len(resources)}

\* C11: the remove command emits exactly one removed block per distinct base
\* address (the address with all its instance keys removed) of the resources.
Cex_C11 ==
    (pc = "generated" /\ command = "remove")
    => Len(blocks) = Cardinality(BaseAddresses(command_resources))

\* C12: the removed block of an address names, as "from", the address with
\* every instance key removed, and carries destroy = true exactly when the
\* destroy flag is set.
Cex_C12 ==
    (pc = "generated" /\ command = "remove" /\ Len(command_resources) = 1)
    => blocks = <<[block |-> "removed",
                   from |-> KeysRemoved(command_resources[1].address),
                   destroy |-> IF destroy THEN "true" ELSE "false"]>>

\* C13: the move command emits one moved block per resource, in input order
\* and without deduplication; "from" and "to" are the resource's address with
\* its instance keys kept, and the "to" line carries the TODO marker.
Thm_C13 ==
    (pc = "generated" /\ command = "move")
    => /\ Len(blocks) = Len(command_resources)
       /\ \A i \in 1..Len(blocks) :
            blocks[i] = [block |-> "moved",
                         from |-> command_resources[i].address,
                         to |-> command_resources[i].address,
                         todo |-> TRUE]

\* the same indexed resource twice, then another one: three blocks
Witness_C13 ==
    /\ pc = "generated"
    /\ command = "move"
    /\ command_resources = <<ReplicaBadArn, ReplicaBadArn, S3Bucket>>
    /\ Len(blocks) = 3
    /\ blocks[1] = blocks[2]

\* the type's prefix before the first "_" is aws
AwsType(type) == StartsWith(type, Aws \o <<"_">>)

\* the resources that are to get an import block
Importable(resources, providers_only) ==
    IF providers_only
    THEN SelectSeq(resources, LAMBDA r : AwsType(r.type))
    ELSE resources

\* C14: the import command emits one import block per resource of any provider
\* when supported_providers_only is false, and one per resource of an aws type,
\* with or without a registry class, and none for the others when it is true;
\* it does not raise.
Thm_C14 ==
    (pc # "command" /\ command = "import")
    => LET expected == Importable(command_resources, supported_providers_only)
       IN  /\ pc = "generated"
           /\ Len(blocks) = Len(expected)
           /\ \A i \in 1..Len(blocks) :
                blocks[i].block = "import" /\ blocks[i].to = expected[i].address

\* restricted to the supported provider: the google resource dropped, the aws
\* resource without a registry class kept
Witness_C14 ==
    /\ pc = "generated"
    /\ command = "import"
    /\ supported_providers_only
    /\ command_resources = <<GoogleResource, AwsUnregistered, S3Bucket>>
    /\ Len(blocks) = 2
    /\ blocks[1].to = AwsUnregistered.address

\* the resources whose handler cannot be constructed, raises, or returns None
HandlerFails == {S3BucketNoValues, ReplicaBadArn, S3BucketUnnamed}

Placeholder(block) == block.id = <<>> /\ block.todo

\* C15: a resource whose registry handler cannot be constructed, raises or
\* returns no identifier still gets its import block, with the placeholder
\* (empty id and TODO comment); the blocks of the other resources carry their
\* identifiers as if it were not there.
Thm_C15 ==
    (pc # "command" /\ command = "import")
    => LET expected == Importable(command_resources, supported_providers_only)
       IN  /\ pc = "generated"
           /\ Len(blocks) = Len(expected)
           /\ \A i \in 1..Len(blocks) :
                /\ blocks[i].block = "import"
                /\ blocks[i].to = expected[i].address
                /\ expected[i] \in HandlerFails => Placeholder(blocks[i])
                /\ expected[i] = S3Bucket
                    => (blocks[i].id = S3Bucket.values[1][2] /\ ~blocks[i].todo)
                /\ expected[i] = Replica
                    => (blocks[i].id = <<"f", ":", "d">> /\ ~blocks[i].todo)

\* a handler that raises, between two that return an identifier
Witness_C15 ==
    /\ pc = "generated"
    /\ command = "import"
    /\ command_resources = <<S3Bucket, ReplicaBadArn, Replica>>
    /\ Len(blocks) = 3
    /\ Placeholder(blocks[2])
    /\ ~Placeholder(blocks[3])

-----------------------------------------------------------------------------
(* main: one run of the program *)

\* the ASCII characters of code points 32 to 95, in the order of their code points
AsciiTo95 ==
    <<" ", "!", DQ, "#", "$", "%", "&", SQ, "(", ")", "*", "+", ",", "-", ".", "/",
      "0", "1", "2", "3", "4", "5", "6", "7", "8", "9", ":", ";", "<", "=", ">", "?",
      "@", "A", "B", "C", "D", "E", "F", "G", "H", "I", "J", "K", "L", "M", "N", "O",
      "P", "Q", "R", "S", "T", "U", "V", "W", "X", "Y", "Z", "[", "\\", "]", "^", "_">>

\* the ASCII characters of code points 97 to 126
AsciiFrom97 ==
    <<"a", "b", "c", "d", "e", "f", "g", "h", "i", "j", "k", "l", "m", "n", "o",
      "p", "q", "r", "s", "t", "u", "v", "w", "x", "y", "z", "{", "|", "}", "~">>

\* ord(c)
CodePoint(c) ==
    IF \E i \in 1..Len(AsciiTo95) : AsciiTo95[i] = c
    THEN 31 + CHOOSE i \in 1..Len(AsciiTo95) : AsciiTo95[i] = c
    ELSE 96 + CHOOSE i \in 1..Len(AsciiFrom97) : AsciiFrom97[i] = c

\* a < b for Python strings: decided at the first position where they differ
StrLess(a, b) ==
    LET shorter == IF Len(a) < Len(b) THEN Len(a) ELSE Len(b)
        differing == {i \in 1..shorter : a[i] # b[i]}
    IN  IF differing = {} THEN Len(a) < Len(b)
        ELSE CodePoint(a[Min(differing)]) < CodePoint(b[Min(differing)])

\* mutant: the resources are left in the order of the walk
resources_unsorted(resources) == resources

\* sorted(resources, key=lambda r: r["address"]): the sort is stable, so the
\* resource at position i goes after those with a smaller address and after
\* those before it with the same address
SortedByAddress(resources) ==
    LET position(i) ==
            1 + Cardinality({j \in 1..Len(resources) :
                                \/ StrLess(resources[j].address, resources[i].address)
                                \/ j < i /\ resources[j].address = resources[i].address})
    IN  [p \in 1..Len(resources) |->
            resources[CHOOSE i \in 1..Len(resources) : position(i) = p]]

\* the file names of the model, sorted
SortedFileNames == <<"a.tf", "b.tf", "e.tf", "x.tf">>

\* [f for f in glob.glob(pattern) if os.path.isfile(f)]
Glob(pattern) ==
    IF pattern = "*.tf" THEN FileNames
    ELSE IF pattern \in FileNames THEN {pattern}
    ELSE {}

\* <<sorted(expanded_files), warnings printed>>
expand_file_patterns(patterns) ==
    LET matched(pattern) == IF Glob(pattern) = {} /\ pattern \in FileNames
                            THEN {pattern} ELSE Glob(pattern)
        expanded_files == UNION {matched(patterns[i]) : i \in 1..Len(patterns)}
    IN  IF patterns = <<>> THEN <<<<>>, <<>>>>
        ELSE <<SelectSeq(SortedFileNames, LAMBDA f : f \in expanded_files),
               IF expanded_files = {} THEN <<"no_files_matched">> ELSE <<>>>>

\* sorted(grouped_resources.keys(), key=lambda x: (x is None, x))
sorted_filenames(grouped) ==
    LET keys == {grouped[i][1] : i \in 1..Len(grouped)}
    IN  SelectSeq(SortedFileNames, LAMBDA f : f \in keys)
            \o (IF NoFile \in keys THEN <<NoFile>> ELSE <<>>)

\* grouped_resources[filename]
GroupOf(grouped, filename) ==
    grouped[CHOOSE i \in 1..Len(grouped) : grouped[i][1] = filename][2]

\* lines 471-493: the parts of the output, one per group that has blocks; the
\* header comment is the source_file of the part
RECURSIVE output_parts(_, _, _, _, _)
output_parts(filenames, grouped, cmd, destroy_flag, providers_only) ==
    IF filenames = <<>> THEN <<>>
    ELSE LET resources_for_group == SortedByAddress(GroupOf(grouped, filenames[1]))
             group_blocks == generate_blocks_for_command(
                                resources_for_group, cmd, destroy_flag, providers_only).blocks
             rest == output_parts(Tail(filenames), grouped, cmd, destroy_flag, providers_only)
         IN  IF resources_for_group = <<>> \/ group_blocks = <<>> THEN rest
             ELSE <<[source_file |-> filenames[1], blocks |-> group_blocks]>> \o rest

\* res for res_list in grouped_resources.values() for res in res_list
RECURSIVE all_resources(_)
all_resources(grouped) ==
    IF grouped = <<>> THEN <<>> ELSE grouped[1][2] \o all_resources(Tail(grouped))

\* standard input: text that json.load rejects, or the text of a document
NotJson == [json |-> FALSE]

Json(document) == [json |-> TRUE, value |-> document]

\* a document of another format version, one without the field, and the
\* document of an empty state, which has no values
OtherVersion ==
    [format_version |-> "0.2", values |-> [root_module |-> ModuleNode(<<Managed(TypeName)>>, <<>>)]]

NoVersion == [values |-> [root_module |-> ModuleNode(<<Managed(TypeName)>>, <<>>)]]

EmptyState == [format_version |-> "1.0"]

\* the last two lists of child modules: module.c.t.o and module.cd.t.n, two
\* resources that go to different files under --files "*.tf"
MainDocuments ==
    { [format_version |-> "1.0", values |-> [root_module |-> ModuleNode(r, c)]] :
        r \in {<<>>, <<Managed(<<"u", ".", "n">>), Managed(TypeName)>>,
                     <<Managed(TypeName), Managed(<<"u", ".", "n">>)>>},
        c \in {<<>>, <<ChildC(<<>>), ChildCd>>, <<ChildCd, ChildC(<<>>)>>,
                     <<ModuleNode(<<Managed(ModuleC \o <<".", "t", ".", "o">>)>>, <<>>),
                       ModuleNode(<<Managed(ModuleCd \o <<".">> \o TypeName)>>, <<>>)>>,
                     <<ModuleNode(<<Managed(ModuleCd \o <<".">> \o TypeName)>>, <<>>),
                       ModuleNode(<<Managed(ModuleC \o <<".", "t", ".", "o">>)>>, <<>>)>>} }
    \cup {OtherVersion, NoVersion, EmptyState}

\* what --files may hold: a file, a pattern, a name that matches nothing
FilePatterns == {"b.tf", "*.tf", "missing.tf"}

\* parse_args: the command with the flags its parser has
CommandLines ==
    { [command |-> "import", destroy |-> FALSE, supported_providers_only |-> FALSE],
      [command |-> "import", destroy |-> FALSE, supported_providers_only |-> TRUE],
      [command |-> "remove", destroy |-> FALSE, supported_providers_only |-> FALSE],
      [command |-> "remove", destroy |-> TRUE, supported_providers_only |-> FALSE],
      [command |-> "move", destroy |-> FALSE, supported_providers_only |-> FALSE],
      [command |-> "list", destroy |-> FALSE, supported_providers_only |-> FALSE] }

InitMain ==
    /\ pc = "read"
    /\ stdin \in {NotJson} \cup {Json(d) : d \in MainDocuments}
    /\ \E args \in CommandLines :
            /\ command = args.command
            /\ destroy = args.destroy
            /\ supported_providers_only = args.supported_providers_only
    /\ no_color \in BOOLEAN
    /\ filter_resource_addresses \in SeqsUpTo(PatternPool, 1)
    /\ args_files \in SeqsUpTo(FilePatterns, MaxFiles)
    /\ stdout = <<>>
    /\ error = ""
    /\ exit_code = -1
    /\ command_resources = <<>>
    /\ blocks = <<>>
    /\ state = <<>>
    /\ files = <<>>
    /\ fileIdx = 0
    /\ resource_addresses_by_file = <<>>
    /\ modules_to_process = <<>>
    /\ grouped_resources = <<>>
    /\ warnings = <<>>
    /\ resource_address = <<>>
    /\ filtersResult = <<>>
    /\ NoMatch
    /\ NoContent
    /\ address_segment = <<>>

mainFixed ==
    <<stdin, args_files, no_color, command, destroy, supported_providers_only,
      filter_resource_addresses, command_resources, blocks, resource_address,
      filtersResult, resource_address_filter, matchResult, matchRule, contentVars,
      address_segment>>

\* lines 437-441: json.load(sys.stdin)
ReadInput ==
    /\ pc = "read"
    /\ IF stdin.json
       THEN /\ state' = stdin.value
            /\ pc' = "version"
            /\ UNCHANGED <<error, exit_code>>
       ELSE /\ error' = "json_decode"
            /\ exit_code' = 1
            /\ pc' = "exited"
            /\ UNCHANGED state
    /\ UNCHANGED <<files, fileIdx, resource_addresses_by_file, modules_to_process,
                   grouped_resources, warnings, stdout>>
    /\ UNCHANGED mainFixed

\* mutant: a document without format_version passes
format_version_supported_or_absent(document) ==
    "format_version" \in DOMAIN document => document.format_version = "1.0"

\* line 443: state.get("format_version") == "1.0"
format_version_supported(document) ==
    "format_version" \in DOMAIN document /\ document.format_version = "1.0"

\* lines 443-448
CheckVersion ==
    /\ pc = "version"
    /\ IF format_version_supported(state)
       THEN /\ pc' = "expand"
            /\ UNCHANGED <<error, exit_code>>
       ELSE /\ error' = "format_version"
            /\ exit_code' = 1
            /\ pc' = "exited"
    /\ UNCHANGED <<state, files, fileIdx, resource_addresses_by_file, modules_to_process,
                   grouped_resources, warnings, stdout>>
    /\ UNCHANGED mainFixed

\* line 450, and the call of filter_resources
ExpandFiles ==
    /\ pc = "expand"
    /\ LET expanded == expand_file_patterns(args_files)
       IN  /\ files' = expanded[1]
           /\ warnings' = warnings \o expanded[2]
    /\ fileIdx' = 1
    /\ pc' = "extract"
    /\ UNCHANGED <<state, resource_addresses_by_file, modules_to_process,
                   grouped_resources, stdout, error, exit_code>>
    /\ UNCHANGED mainFixed

\* line 197 on a document without values: KeyError, which nothing catches
WalkKeyError ==
    /\ pc = "extract"
    /\ fileIdx > Len(files)
    /\ "values" \notin DOMAIN state
    /\ warnings' = IF files # <<>> /\ resource_addresses_by_file = <<>>
                   THEN Append(warnings, "no_resources_in_files")
                   ELSE warnings
    /\ error' = "KeyError"
    /\ exit_code' = 1
    /\ pc' = "exited"
    /\ UNCHANGED <<state, files, fileIdx, resource_addresses_by_file, modules_to_process,
                   grouped_resources, stdout>>
    /\ UNCHANGED mainFixed

\* lines 453-502: the addresses, or the blocks of every group, printed
PrintOutput ==
    /\ pc = "done"
    /\ stdout' =
        IF command = "list"
        THEN LET sorted == SortedByAddress(all_resources(grouped_resources))
             IN  [i \in 1..Len(sorted) |-> sorted[i].address]
        ELSE <<[color |-> IF no_color THEN "" ELSE command,
                parts |-> output_parts(sorted_filenames(grouped_resources),
                                       grouped_resources, command, destroy,
                                       supported_providers_only)]>>
    /\ exit_code' = 0
    /\ pc' = "exited"
    /\ UNCHANGED <<state, files, fileIdx, resource_addresses_by_file, modules_to_process,
                   grouped_resources, warnings, error>>
    /\ UNCHANGED mainFixed

NextMain ==
    \/ ReadInput
    \/ CheckVersion
    \/ ExpandFiles
    \/ ExtractFile
    \/ StartWalk
    \/ WalkKeyError
    \/ ProcessModule
    \/ FinishSelect
    \/ PrintOutput

SpecMain == InitMain /\ [][NextMain]_vars

-----------------------------------------------------------------------------
(* Properties of main *)

\* standard input holds a document whose format_version is not "1.0", or is absent
VersionMismatch ==
    /\ stdin.json
    /\ ("format_version" \in DOMAIN stdin.value => stdin.value.format_version # "1.0")

\* nothing of the run after the version check has happened
NothingProcessed ==
    /\ files = <<>>
    /\ fileIdx = 0
    /\ resource_addresses_by_file = <<>>
    /\ modules_to_process = <<>>
    /\ grouped_resources = <<>>
    /\ warnings = <<>>
    /\ stdout = <<>>

\* C18: a run on a document whose format_version is not "1.0", or is absent,
\* goes from the version check straight to its end, with the format-version
\* error and exit code 1, and at no point of it has a file pattern been
\* expanded, a resource selected or a block printed.
Thm_C18 ==
    /\ [](VersionMismatch =>
            /\ pc \in {"read", "version", "exited"}
            /\ NothingProcessed
            /\ pc = "exited" => (error = "format_version" /\ exit_code = 1))
    /\ [][(VersionMismatch /\ pc = "version")
            => (pc' = "exited" /\ error' = "format_version" /\ exit_code' = 1)]_vars

\* the run on the document without format_version has ended, with --files given
Witness_C18 ==
    /\ pc = "exited"
    /\ stdin = Json(NoVersion)
    /\ args_files = <<"*.tf">>
    /\ error = "format_version"
    /\ exit_code = 1

\* C19: a run ends with exit code 1 when standard input cannot be decoded or
\* the format version does not match, and with exit code 0 in every other
\* case, whatever warnings it has printed.
Cex_C19 ==
    pc = "exited" => exit_code = (IF ~stdin.json \/ VersionMismatch THEN 1 ELSE 0)

-----------------------------------------------------------------------------
(* extract_addresses_from_content on a Terraform text *)

\* a piece of Terraform text, and the pattern its declaration stands for
\* (None: the piece declares neither a resource nor a module)
Piece(text, pattern) == [text |-> text, pattern |-> pattern]

ResourceBlock == Piece(<<"r", "e", "s", "o", "u", "r", "c", "e", " ", DQ, "t", DQ, " ", DQ, "n", DQ, " ", "{", "\n", " ", " ", "b", "u", "c", "k", "e", "t", " ", "=", " ", DQ, "b", DQ, "\n", "}", "\n">>, TypeName)

\* two blanks, then a tab, between the labels
ResourceBlockSpaced == Piece(<<"r", "e", "s", "o", "u", "r", "c", "e", " ", " ", DQ, "t", DQ, "\t", DQ, "o", DQ, " ", "{", "}", "\n">>, <<"t", ".", "o">>)

ModuleBlock == Piece(<<"m", "o", "d", "u", "l", "e", " ", DQ, "c", DQ, " ", "{", "\n", " ", " ", "s", "o", "u", "r", "c", "e", " ", "=", " ", DQ, ".", "/", "m", "o", "d", "u", "l", "e", "s", "/", "c", DQ, "\n", "}", "\n">>, ModuleC)

DataBlock == Piece(<<"d", "a", "t", "a", " ", DQ, "t", DQ, " ", DQ, "n", DQ, " ", "{", "}", "\n">>, None)

\* other blocks, their labels being the two keywords
VariableBlock == Piece(<<"v", "a", "r", "i", "a", "b", "l", "e", " ", DQ, "r", "e", "s", "o", "u", "r", "c", "e", DQ, " ", "{", "}", "\n">>, None)

OutputBlock == Piece(<<"o", "u", "t", "p", "u", "t", " ", DQ, "m", "o", "d", "u", "l", "e", DQ, " ", "{", "\n", " ", " ", "v", "a", "l", "u", "e", " ", "=", " ", "m", "o", "d", "u", "l", "e", ".", "c", "\n", "}", "\n">>, None)

\* the scan is textual: a declaration in a comment line is found as well
CommentedResource == Piece(<<"#", " ", "r", "e", "s", "o", "u", "r", "c", "e", " ", DQ, "t", DQ, " ", DQ, "n", DQ, " ", "{", "}", "\n">>, TypeName)

Pieces ==
    { ResourceBlock, ResourceBlockSpaced, ModuleBlock, DataBlock, VariableBlock,
      OutputBlock, CommentedResource }

\* the text written from the pieces, one after the other
RECURSIVE TextOf(_)
TextOf(pieces) ==
    IF pieces = <<>> THEN <<>> ELSE pieces[1].text \o TextOf(Tail(pieces))

InitContent ==
    /\ pc = "content"
    /\ declarations \in SeqsUpTo(Pieces, MaxDeclarations)
    /\ file_content = TextOf(declarations)
    /\ extracted_addresses = <<>>
    /\ resource_address = <<>>
    /\ NoMatch
    /\ NoFilterArgs
    /\ NoWalk
    /\ NoCommand
    /\ NoMain
    /\ address_segment = <<>>

ExtractContent ==
    /\ pc = "content"
    /\ extracted_addresses' = extract_addresses_from_content(file_content)
    /\ pc' = "extracted"
    /\ UNCHANGED <<file_content, declarations>>
    /\ UNCHANGED <<matchVars, filterArgVars, walkVars, commandVars, mainVars, address_segment>>

NextContent == ExtractContent

SpecContent == InitContent /\ [][NextContent]_vars

-----------------------------------------------------------------------------
(* Properties of extract_addresses_from_content *)

\* how often x stands in the sequence
Count(seq, x) == Cardinality({i \in 1..Len(seq) : seq[i] = x})

\* the patterns the text declares, one per resource or module declaration
Declared == {declarations[i].pattern : i \in 1..Len(declarations)} \ {None}

DeclarationsOf(pattern) ==
    Cardinality({i \in 1..Len(declarations) : declarations[i].pattern = pattern})

\* C20: the addresses returned are the pattern type.name once for each
\* resource "<type>" "<name>" of the text and module.<name> once for each
\* module "<name>" of the text, and nothing else; data sources and other
\* blocks add nothing.
Thm_C20 ==
    pc = "extracted" =>
        /\ \A i \in 1..Len(extracted_addresses) : extracted_addresses[i] \in Declared
        /\ \A pattern \in Declared :
                Count(extracted_addresses, pattern) = DeclarationsOf(pattern)

\* a data source, then a module, then a resource of the same type and name as
\* the data source
Witness_C20 ==
    /\ pc = "extracted"
    /\ declarations = <<DataBlock, ModuleBlock, ResourceBlock>>
    /\ extracted_addresses = <<TypeName, ModuleC>>

-----------------------------------------------------------------------------
(* Properties of the walk of filter_resources *)

RECURSIVE ModulesIn(_)
\* the number of modules of a list of trees: the modules listed and all below
ModulesIn(modules) ==
    IF modules = <<>> THEN 0
    ELSE 1 + ModulesIn(modules[1].child_modules) + ModulesIn(Tail(modules))

RECURSIVE ListedIn(_, _)
\* how often the resource is listed in the modules of a list of trees
ListedIn(modules, r) ==
    IF modules = <<>> THEN 0
    ELSE Count(modules[1].resources, r)
            + ListedIn(modules[1].child_modules, r)
            + ListedIn(Tail(modules), r)

RECURSIVE InGroups(_, _)
\* how often the resource stands in the groups
InGroups(grouped, r) ==
    IF grouped = <<>> THEN 0
    ELSE Count(grouped[1][2], r) + InGroups(Tail(grouped), r)

\* the resource is managed and the filters of the run accept it
Accepted(r) ==
    /\ r.mode = "managed"
    /\ matches_filters(r.address, filter_resource_addresses, resource_addresses_by_file)[1]

\* C21: the walk ends on every tree: each turn of the loop takes one module
\* off the modules still to visit (those of the worklist and below them), so
\* every module of the tree is processed once; at every point of the walk each
\* accepted resource is in the groups as often as it was listed in the modules
\* processed, and each other resource is in no group; when the walk has ended
\* the worklist is empty, so every accepted resource is in the result once per
\* listing, at any depth.
Thm_C21 ==
    /\ [](pc \in {"walk", "done"} =>
            /\ pc = "done" => modules_to_process = <<>>
            /\ \A r \in ResourcesBelow(state.values.root_module) :
                    \A accepted \in {Accepted(r)} :
                        InGroups(grouped_resources, r)
                            + (IF accepted THEN ListedIn(modules_to_process, r) ELSE 0)
                        = (IF accepted THEN ListedIn(<<state.values.root_module>>, r) ELSE 0))
    /\ [][(pc = "extract" /\ pc' = "walk")
            => ModulesIn(modules_to_process') = ModulesIn(<<state.values.root_module>>)]_vars
    /\ [][(pc = "walk" /\ pc' = "walk")
            => ModulesIn(modules_to_process') = ModulesIn(modules_to_process) - 1]_vars
    /\ [][(pc = "walk" /\ pc' = "done") => ModulesIn(modules_to_process) = 0]_vars

\* a root with two child modules, one of them with a child of its own: four
\* modules, each with one managed resource, all in the result
Witness_C21 ==
    /\ pc = "done"
    /\ filter_resource_addresses = <<>>
    /\ files = <<>>
    /\ state.values.root_module =
            ModuleNode(<<Managed(TypeName)>>, <<ChildC(<<GrandChild>>), ChildCd>>)
    /\ Len(grouped_resources) = 1
    /\ Len(grouped_resources[1][2]) = 4
    /\ grouped_resources[1][2][4] = GrandChild.resources[1]

-----------------------------------------------------------------------------
(* Further properties of matches_filters *)

\* the patterns the by-file map holds for the file
PatternsOf(by_file, filename) ==
    by_file[CHOOSE i \in 1..Len(by_file) : by_file[i][1] = filename][2]

\* C22: when the filename returned by matches_filters is not None, the match
\* flag returned with it is true and a pattern of that file matches the
\* address.
Cex_C22 ==
    (pc = "filtered" /\ filtersResult[2] # NoFile)
    => /\ filtersResult[1]
       /\ SomePattern(resource_address,
                      PatternsOf(resource_addresses_by_file, filtersResult[2]))

-----------------------------------------------------------------------------
(* Files that yield no address *)

\* the file does not exist, cannot be read, or declares no resource and no module
YieldsNothing(f) == extract_addresses_from_file(f)[1] = <<>>

\* the by-file map of the files of the list that yield an address, in the
\* order given
ByFile(fs) ==
    SelectSeq([i \in 1..Len(fs) |-> <<fs[i], extract_addresses_from_file(fs[i])[1]>>],
              LAMBDA entry : entry[2] # <<>>)

\* the entries of the map with a pattern that matches the address
MatchingEntries(a, F) == {i \in 1..Len(F) : SomePattern(a, F[i][2])}

\* the resource is in the group of that key, and in no other
InGroupOnly(r, key) ==
    \E g \in 1..Len(grouped_resources) :
        /\ grouped_resources[g][1] = key
        /\ r \in GroupSet(g)
        /\ \A h \in 1..Len(grouped_resources) : r \in GroupSet(h) => h = g

\* C23: the turn of the extraction loop on a file that cannot be read or holds
\* no declaration warns and goes on to the next file, the by-file map as it
\* was; from the walk on the map holds the files that yield addresses and no
\* other, no group has such a file as its key, and the result is the one of
\* the run on the yielding files alone: a managed resource is selected iff the
\* explicit patterns accept it and, if a file yields addresses, one of them
\* matches it; its group is the first yielding file that matches.
Thm_C23 ==
    /\ [][(pc = "extract" /\ fileIdx <= Len(files) /\ YieldsNothing(files[fileIdx]))
            => /\ pc' = "extract"
               /\ fileIdx' = fileIdx + 1
               /\ resource_addresses_by_file' = resource_addresses_by_file
               /\ warnings' # warnings
               /\ warnings'[Len(warnings')] = "no_addresses_in_file"]_vars
    /\ [](pc \in {"walk", "done"} =>
            /\ resource_addresses_by_file = ByFile(files)
            /\ \A i \in 1..Len(files) :
                    YieldsNothing(files[i]) =>
                        /\ \A e \in 1..Len(resource_addresses_by_file) :
                                resource_addresses_by_file[e][1] # files[i]
                        /\ \A g \in 1..Len(grouped_resources) :
                                grouped_resources[g][1] # files[i])
    /\ [](pc = "done" =>
            \A F \in {ByFile(files)} :
                \A r \in ManagedBelow(state.values.root_module) :
                    \A matching \in {MatchingEntries(r.address, F)} :
                        LET accepted ==
                                /\ (filter_resource_addresses = <<>>
                                        \/ SomePattern(r.address, filter_resource_addresses))
                                /\ (F = <<>> \/ matching # {})
                            key == IF F = <<>> THEN NoFile ELSE F[Min(matching)][1]
                        IN  IF accepted THEN InGroupOnly(r, key)
                            ELSE \A g \in 1..Len(grouped_resources) : r \notin GroupSet(g))

\* an unreadable file before one that declares resource "t" "n": the group of
\* the second file holds the resource, and two warnings name the first
Witness_C23 ==
    /\ pc = "done"
    /\ files = <<"x.tf", "a.tf">>
    /\ resource_addresses_by_file = <<<<"a.tf", <<TypeName>>>>>>
    /\ warnings = <<"could_not_process_file", "no_addresses_in_file">>
    /\ Len(grouped_resources) = 1
    /\ grouped_resources[1][1] = "a.tf"

-----------------------------------------------------------------------------
(* The output of main as a function of the set of managed resources *)

\* the managed resources of the document the filters of the run accept: a set,
\* which keeps nothing of the order the tree lists them in
AcceptedSet == {r \in ManagedBelow(state.values.root_module) : Accepted(r)}

\* the group the resource goes to
KeyOf(r) ==
    IF resource_addresses_by_file = <<>> THEN NoFile
    ELSE first_matching_filename(r.address, resource_addresses_by_file)

\* the resources of a set of pairwise distinct addresses, by ascending address
ByAddress(S) ==
    [p \in 1..Cardinality(S) |->
        CHOOSE r \in S : Cardinality({q \in S : StrLess(q.address, r.address)}) = p - 1]

\* the keys of the groups, filenames ascending, None last
KeysInOrder ==
    SelectSeq(SortedFileNames \o <<NoFile>>, LAMBDA f : \E r \in AcceptedSet : KeyOf(r) = f)

\* the output computed from the set: the addresses ascending, or one part per
\* key in order, with the blocks of its resources taken by ascending address
OutputOfSet ==
    IF command = "list"
    THEN [i \in 1..Cardinality(AcceptedSet) |-> ByAddress(AcceptedSet)[i].address]
    ELSE LET part(f) ==
                [source_file |-> f,
                 blocks |-> generate_blocks_for_command(
                                ByAddress({r \in AcceptedSet : KeyOf(r) = f}),
                                command, destroy, supported_providers_only).blocks]
             parts == [i \in 1..Len(KeysInOrder) |-> part(KeysInOrder[i])]
         IN  <<[color |-> IF no_color THEN "" ELSE command,
                parts |-> SelectSeq(parts, LAMBDA p : p.blocks # <<>>)]>>

\* the documents of the pool that hold the same managed resources as the
\* document of the run and list resources or child modules in another order
Reordered ==
    {d \in MainDocuments :
        /\ "values" \in DOMAIN d
        /\ "format_version" \in DOMAIN d
        /\ d.format_version = state.format_version
        /\ d # state
        /\ ManagedBelow(d.values.root_module) = ManagedBelow(state.values.root_module)}

\* C24: the output of a run that ends with exit code 0 is the one computed
\* from the set of the managed resources, the filters and the command alone
\* (groups by ascending filename, blocks by ascending address); so two state
\* trees that hold the same managed resources, of pairwise distinct addresses,
\* in different orders give the same output.
Thm_C24 ==
    (pc = "exited" /\ exit_code = 0) => stdout = OutputOfSet

\* a run on a tree whose walk meets the resource of b.tf before the one of
\* a.tf, and which has a reordering in the pool: the part of a.tf comes first
Witness_C24 ==
    /\ pc = "exited"
    /\ exit_code = 0
    /\ command = "move"
    /\ args_files = <<"*.tf">>
    /\ filter_resource_addresses = <<>>
    /\ state.values.root_module =
            ModuleNode(<<>>, <<ModuleNode(<<Managed(ModuleCd \o <<".">> \o TypeName)>>, <<>>),
                               ModuleNode(<<Managed(ModuleC \o <<".", "t", ".", "o">>)>>, <<>>)>>)
    /\ Reordered # {}
    /\ grouped_resources[1][1] = "b.tf"
    /\ Len(stdout[1].parts) = 2
    /\ stdout[1].parts[1].source_file = "a.tf"
    /\ stdout[1].parts[2].source_file = "b.tf"

-----------------------------------------------------------------------------
(* extract_address_segment applied to one address *)

\* the addresses, the patterns, and inputs of other shapes: the empty string, one segment, a
\* module path, a type that begins with the module keyword, a name that is
\* the keyword, a module path and a type without name, a key that holds a dot
SegmentSubjects ==
    Addresses \cup FixedFilters \cup
    { <<>>, <<"t">>, Module, ModuleC \o <<".">> \o ModuleC,
      <<"m", "o", "d", "u", "l", "e", "x", ".", "n">>,
      <<"t", ".">> \o Module,
      ModuleC \o <<".", "t">>,
      TypeName \o <<"[", DQ, "a", ".", "b", DQ, "]">> }

InitSegment ==
    /\ pc = "segment"
    /\ resource_address \in SegmentSubjects
    /\ address_segment = <<>>
    /\ NoMatch
    /\ NoFilterArgs
    /\ NoWalk
    /\ NoCommand
    /\ NoMain
    /\ NoContent

ExtractSegment ==
    /\ pc = "segment"
    /\ address_segment' = extract_address_segment(resource_address)
    /\ pc' = "segmented"
    /\ UNCHANGED <<matchVars, filterArgVars, walkVars, commandVars, mainVars, contentVars>>

SpecSegment == InitSegment /\ [][ExtractSegment]_vars

-----------------------------------------------------------------------------
(* Properties of extract_address_segment *)

Max(S) == CHOOSE x \in S : \A y \in S : y <= x

\* the positions of the dots of s
Dots(s) == {i \in 1..Len(s) : s[i] = "."}

\* the position before the second-to-last segment of s, which has a dot
BeforeSecondToLast(s) ==
    LET earlier == Dots(s) \ {Max(Dots(s))}
    IN  IF earlier = {} THEN 0 ELSE Max(earlier)

\* the second-to-last segment of s begins with the module keyword
ModuleBeforeLast(s) ==
    StartsWith(SubSeq(s, BeforeSecondToLast(s) + 1, Max(Dots(s)) - 1), Module)

\* C25: extract_address_segment returns None exactly when the address has no
\* dot (fewer than two segments) or its second-to-last segment begins with
\* the module keyword; otherwise it returns the last two segments joined by a
\* dot, which is the end of the address from its second-to-last segment on,
\* whatever stands before it.
Thm_C25 ==
    pc = "segmented" =>
        LET a == resource_address
        IN  IF Dots(a) = {} \/ ModuleBeforeLast(a)
            THEN address_segment = None
            ELSE /\ address_segment # None
                 /\ address_segment = SubSeq(a, BeforeSecondToLast(a) + 1, Len(a))
                 /\ Len(Split(address_segment, ".")) = 2

\* a resource two modules deep
Witness_C25 ==
    /\ pc = "segmented"
    /\ resource_address = ModuleCd \o KeyDq \o <<".">> \o ModuleC \o <<".">> \o TypeName \o KeyInt
    /\ address_segment = TypeName \o KeyInt

-----------------------------------------------------------------------------
(* Further properties of matches_resource_address_filter *)

\* C26 as stated: a filter that contains "*" matches an address only if the
\* whole address matches the regular expression compiled from the filter.
Cex_C26 ==
    (pc = "matched" /\ HasWildcard(resource_address_filter) /\ matchResult)
    => wildcard_match(resource_address, resource_address_filter)

\* C26 amended: a filter that contains "*" matches an address iff the whole
\* address matches its regular expression, or filter and address end in the
\* same (type, name) pair; a filter the regular expression rejects never
\* matches through the exact, prefix-before-key or module-prefix rule.
Thm_C26 ==
    (pc = "matched" /\ HasWildcard(resource_address_filter))
    => /\ matchResult <=>
            \/ wildcard_match(resource_address, resource_address_filter)
            \/ SameTrailingPair(resource_address, resource_address_filter)
       /\ matchRule \in {"wildcard", "type_name", "none"}
       /\ ~wildcard_match(resource_address, resource_address_filter)
            => matchRule \in {"type_name", "none"}

\* module.*.t.n against the root resource t.n: rejected by the regular
\* expression, accepted by the type/name rule
Witness_C26 ==
    /\ pc = "matched"
    /\ resource_address = TypeName
    /\ resource_address_filter = ModuleDot \o <<"*", ".">> \o TypeName
    /\ ~wildcard_match(resource_address, resource_address_filter)
    /\ matchResult
    /\ matchRule = "type_name"

\* the segments of p are, without their keys, the first segments of a, and at
\* one of them p and a both carry an instance key, not the same one
KeyMismatch(a, p) ==
    /\ Len(Parts(p)) <= Len(Parts(a))
    /\ \A i \in 1..Len(Parts(p)) : KeysRemoved(Parts(p)[i]) = KeysRemoved(Parts(a)[i])
    /\ \E i \in 1..Len(Parts(p)) :
            /\ HasInstanceKey(Parts(p)[i])
            /\ HasInstanceKey(Parts(a)[i])
            /\ Parts(p)[i] # Parts(a)[i]

\* the mismatch is at the last segment of the pattern
LastKeyMismatch(a, p) ==
    /\ HasInstanceKey(Parts(p)[Len(Parts(p))])
    /\ HasInstanceKey(Parts(a)[Len(Parts(p))])
    /\ Parts(p)[Len(Parts(p))] # Parts(a)[Len(Parts(p))]

IsModulePath(p) ==
    /\ ~HasWildcard(p)
    /\ Len(Parts(p)) >= 2
    /\ Len(Parts(p)) % 2 = 0
    /\ \A i \in 1..Len(Parts(p)) : (i % 2 = 1) => Parts(p)[i] = Module

\* the segments of p are the first segments of a, which has more: each the
\* same module name, with the key of p if p gives one there
WholeSegmentPrefix(p, a) ==
    /\ Len(Parts(p)) < Len(Parts(a))
    /\ \A i \in 1..Len(Parts(p)) :
            \/ Parts(a)[i] = Parts(p)[i]
            \/ ~HasInstanceKey(Parts(p)[i]) /\ KeysRemoved(Parts(a)[i]) = Parts(p)[i]

-----------------------------------------------------------------------------
(* The groups of filter_resources *)

\* the keys of the groups
GroupKeys == {grouped_resources[g][1] : g \in 1..Len(grouped_resources)}

\* the files that have an entry in the by-file map
FilesOfMap == {resource_addresses_by_file[i][1] : i \in 1..Len(resource_addresses_by_file)}

\* C29: at every point of the walk and in the result, every group holds a
\* resource, no key stands twice, no resource is in two groups or twice in
\* one; with an empty by-file map the only key is None, with a non-empty one
\* every key is a file of the map, so None is with no filename key.
Thm_C29 ==
    pc \in {"walk", "done"} =>
        /\ \A g \in 1..Len(grouped_resources) : grouped_resources[g][2] # <<>>
        /\ Cardinality(GroupKeys) = Len(grouped_resources)
        /\ \A r \in ResourcesBelow(state.values.root_module) :
                InGroups(grouped_resources, r) <= 1
        /\ resource_addresses_by_file = <<>> => GroupKeys \subseteq {NoFile}
        /\ resource_addresses_by_file # <<>> => GroupKeys \subseteq FilesOfMap
        /\ NoFile \in GroupKeys => GroupKeys = {NoFile}

\* two files, a resource that both match and one that only the second matches:
\* two groups of one resource each
Witness_C29 ==
    /\ pc = "done"
    /\ files = <<"b.tf", "a.tf">>
    /\ GroupKeys = {"a.tf", "b.tf"}
    /\ \E r \in ResourcesBelow(state.values.root_module) : MatchingFiles(r.address) = {1, 2}

-----------------------------------------------------------------------------
(* The selection under other filters *)

\* the managed resources of the document that matches_filters accepts under
\* the explicit patterns E and the by-file map F
SelectedUnder(E, F) ==
    {r \in ManagedBelow(state.values.root_module) : matches_filters(r.address, E, F)[1]}

\* the resources of the result
SelectedNow == UNION {GroupSet(g) : g \in 1..Len(grouped_resources)}

Elements(seq) == {seq[i] : i \in 1..Len(seq)}

\* the lists with the same elements, as often
Reorderings(seq, lists) ==
    {l \in lists : Len(l) = Len(seq) /\ \A x \in Elements(seq) \cup Elements(l) :
                                            Count(l, x) = Count(seq, x)}

\* C30: the result of the run holds the resources matches_filters accepts;
\* every non-empty pattern list with the same patterns and more accepts them
\* all, with the same files; and every permutation of the pattern list, and
\* every permutation of the files, accepts the same resources.
Thm_C30 ==
    pc = "done" =>
        \A F \in {ByFile(files)}, selected \in {SelectedNow} :
            /\ selected = SelectedUnder(filter_resource_addresses, F)
            /\ filter_resource_addresses # <<>> =>
                    \A E \in PatternLists :
                        Elements(filter_resource_addresses) \subseteq Elements(E)
                            => selected \subseteq SelectedUnder(E, F)
            /\ \A E \in Reorderings(filter_resource_addresses, PatternLists) :
                    SelectedUnder(E, F) = selected
            /\ \A fs \in Reorderings(files, FileLists(MaxFiles)) :
                    \A G \in {ByFile(fs)} :
                        SelectedUnder(filter_resource_addresses, G) = selected

\* the group the resource is in when the files are given in that order
KeyUnder(r, fs) == first_matching_filename(r.address, ByFile(fs))

\* two patterns of which the second selects the resources, and two files in
\* an order that puts a resource in the group of b.tf, the other order in the
\* group of a.tf
Witness_C30 ==
    /\ pc = "done"
    /\ filter_resource_addresses = <<ModuleC, TypeName>>
    /\ files = <<"b.tf", "a.tf">>
    /\ Cardinality(SelectedNow) >= 2
    /\ SelectedUnder(<<ModuleC>>, ByFile(files)) # SelectedNow
    /\ \E r \in SelectedNow :
            /\ KeyUnder(r, files) = "b.tf"
            /\ KeyUnder(r, <<"a.tf", "b.tf">>) = "a.tf"

====
